---------------------------- MODULE Spec2Model ----------------------------
(***************************************************************************)
(* Filter-graph construction of the playout engine                         *)
(* (engine/src/player/filter/mod.rs).                                      *)
(*                                                                         *)
(* Rust Strings are TLA+ strings and are handled character by character    *)
(* (Len, SubSeq and \o on strings), so prefix, suffix, substring, split    *)
(* and replace tests are computed as the code computes them.               *)
(* Vec<String> is a sequence of strings.  Option<String> is a set holding  *)
(* at most one string.                                                     *)
(***************************************************************************)
EXTENDS Integers, Sequences, FiniteSets, TLC

VARIABLES
    config,          \* Filters.config (PlayoutConfig, read only)
    hw_context,      \* Filters.hw_context
    audio_chain,     \* Filters.audio_chain
    video_chain,     \* Filters.video_chain
    output_chain,    \* Filters.output_chain
    audio_map,       \* Filters.audio_map
    video_map,       \* Filters.video_map
    audio_out_link,  \* Filters.audio_out_link
    video_out_link,  \* Filters.video_out_link
    output_map,      \* Filters.output_map
    audio_position,  \* Filters.audio_position
    video_position,  \* Filters.video_position
    audio_last,      \* Filters.audio_last
    video_last,      \* Filters.video_last
    calls,           \* history: the operations applied to the graph state so far
    aborted,         \* TRUE once an operation panicked (index out of range)
    node,            \* the Media item handed to filter_chains
    pc,              \* position of the control flow inside filter_chains
    idx,             \* position of the loop over audio_indexes
    is_terminated,   \* the shared termination flag (AtomicBool)
    program,         \* validate_playlist: playlist.program
    current_list,    \* player_control.current_list
    begin,           \* validate_playlist: begin, in seconds
    index,           \* validate_playlist: index of the loop over the program
    v_pc,            \* position of the control flow inside validate_playlist
    v_log,           \* history: the steps of validate_playlist and the setting
                     \* of the flag, in order
    messages,        \* the mail queue (Arc<Mutex<Vec<String>>>): its content
    last_messages,   \* LogMailer.last_messages: its content
    locks,           \* the thread that holds each of the two mutexes, "" if none
    poisoned,        \* the mutexes whose holder panicked
    thread_pc,       \* position of the mail queue thread and of a logging thread
    record           \* the text each thread is logging

graph == <<hw_context, audio_chain, video_chain, output_chain, audio_map,
           video_map, audio_out_link, video_out_link, output_map,
           audio_position, video_position, audio_last, video_last>>

\* the run of filter_chains: its item and its two control positions
run == <<node, pc, idx>>

\* the thread of validate_playlist and the flag it watches
validation == <<program, current_list, begin, index, v_pc, v_log>>

\* the mail queue, its logger and the threads that use them
mailing == <<messages, last_messages, locks, poisoned, thread_pc, record>>

threads == <<is_terminated, validation, mailing>>

vars == <<config, graph, calls, aborted, run, threads>>

---------------------------------------------------------------------------
(* Bounds of the exploration.                                              *)

\* number of operations applied to one graph state
MaxCalls == 3

---------------------------------------------------------------------------
(* str primitives of the Rust standard library, on TLA+ strings.           *)

CharAt(s, i) == SubSeq(s, i, i)

starts_with(s, p) == Len(s) >= Len(p) /\ SubSeq(s, 1, Len(p)) = p

ends_with(s, p) ==
    Len(s) >= Len(p) /\ SubSeq(s, Len(s) - Len(p) + 1, Len(s)) = p

\* str::contains
contains(s, p) ==
    \E i \in 1..(Len(s) - Len(p) + 1) : SubSeq(s, i, i + Len(p) - 1) = p

\* Vec<String>::contains
vec_contains(v, x) == \E i \in 1..Len(v) : v[i] = x

\* Vec<String>::join("")
RECURSIVE join(_)
join(v) == IF v = <<>> THEN "" ELSE Head(v) \o join(Tail(v))

\* str::trim, for the ASCII space
RECURSIVE trim_start(_)
trim_start(s) ==
    IF Len(s) > 0 /\ CharAt(s, 1) = " " THEN trim_start(SubSeq(s, 2, Len(s))) ELSE s

RECURSIVE trim_end(_)
trim_end(s) ==
    IF Len(s) > 0 /\ CharAt(s, Len(s)) = " "
    THEN trim_end(SubSeq(s, 1, Len(s) - 1))
    ELSE s

trim(s) == trim_end(trim_start(s))

\* str::split on a set of separator characters: the pieces between
\* separators, empty pieces included; always at least one piece.
split(s, seps) ==
    LET at     == {i \in 1..Len(s) : CharAt(s, i) \in seps}
        nth(k) == CHOOSE p \in at : Cardinality({q \in at : q <= p}) = k
        n      == Cardinality(at)
    IN  [k \in 1..(n + 1) |->
            SubSeq(s, IF k = 1 THEN 1 ELSE nth(k - 1) + 1,
                      IF k = n + 1 THEN Len(s) ELSE nth(k) - 1)]

\* str::split_terminator: as split, but a trailing empty piece is dropped.
split_terminator(s, seps) ==
    LET parts == split(s, seps)
    IN  IF parts[Len(parts)] = "" THEN SubSeq(parts, 1, Len(parts) - 1) ELSE parts

\* str::replace: every non-overlapping occurrence of pat (non-empty), left
\* to right; replace_from rewrites s from index i on.
RECURSIVE replace_from(_, _, _, _)
replace_from(s, pat, to, i) ==
    LET hits == {j \in i..(Len(s) - Len(pat) + 1) : SubSeq(s, j, j + Len(pat) - 1) = pat}
    IN  IF hits = {} THEN SubSeq(s, i, Len(s))
        ELSE LET j == CHOOSE h \in hits : \A g \in hits : h <= g
             IN  SubSeq(s, i, j - 1) \o to \o replace_from(s, pat, to, j + Len(pat))

replace(s, pat, to) == replace_from(s, pat, to, 1)

\* Display of an i32
fmt_int(n) == ToString(n)

---------------------------------------------------------------------------
(* FilterType and its Display.                                             *)

FilterType == {"Audio", "Video"}

fmt_type(filter_type) == IF filter_type = "Audio" THEN "a" ELSE "v"

HW_FILTER_POSTFIX == {"_cuda", "_npp", "_opencl", "_vaapi", "_vulkan", "_qsv"}

\* Option<String>::is_some_and(|p| p.contains(needle))
is_some_and_contains(opt, needle) == \E p \in opt : contains(p, needle)

---------------------------------------------------------------------------
(* Hardware lowering helpers.                                              *)

is_hw(filter) == \E p \in HW_FILTER_POSTFIX : contains(filter, p)

last_is_hw(chain) ==
    LET parts == split_terminator(chain, {",", ";"})
        n     == Len(parts)
        hw(x) == \E p \in HW_FILTER_POSTFIX : contains(trim(x), p)
        dl(x) == contains(trim(x), "hwdownload")
    IN  IF n = 0 THEN FALSE
        ELSE IF n = 1 THEN hw(parts[1]) /\ ~dl(parts[1])
        ELSE hw(parts[n]) /\ ~dl(parts[n]) /\ ~dl(parts[n - 1])

\* mutant of hw_download: the end of the chain is not looked at
hw_download_unchecked(chain, f) ==
    IF ~is_hw(f) /\ ~starts_with(f, "null[") /\ ~starts_with(f, "[")
    THEN "hwdownload"
    ELSE ""

hw_download(chain, f) ==
    IF last_is_hw(chain) /\ ~is_hw(f) /\ ~starts_with(f, "null[")
       /\ ~starts_with(f, "[")
    THEN "hwdownload"
    ELSE ""

hw_upload_str(cfg) ==
    IF is_some_and_contains(cfg.input_param, "cuda") THEN "hwupload_cuda"
    ELSE "hwupload"

hw_upload(cfg, chain, f) ==
    IF ~last_is_hw(chain) /\ is_hw(f) THEN hw_upload_str(cfg) ELSE ""

---------------------------------------------------------------------------
(* Filters::add_filter.                                                    *)

\* mutant of chain_new_track: the previous track's chain is left unclosed
chain_new_track_unclosed(chain, position, last, filter, track_nr, filter_type) ==
    chain \o (IF chain = "" THEN "" ELSE ";")
          \o "[" \o fmt_int(position) \o ":" \o fmt_type(filter_type) \o ":"
          \o fmt_int(track_nr) \o "]" \o filter

\* mutant of chain_new_track: the download bridge is not limited to video
chain_new_track_any_type(chain, position, last, filter, track_nr, filter_type) ==
    LET selector == IF chain = "" THEN ""
                    ELSE "[" \o fmt_type(filter_type) \o "out" \o fmt_int(last) \o "]"
        sep      == IF chain = "" THEN "" ELSE ";"
        hw_dl    == IF hw_context /\ ~is_hw(filter)
                    THEN "hwdownload,format=nv12,"
                    ELSE ""
    IN  IF starts_with(filter, "aevalsrc") \/ starts_with(filter, "movie")
        THEN chain \o selector \o sep \o filter
        ELSE chain \o selector \o sep \o "[" \o fmt_int(position) \o ":"
                   \o fmt_type(filter_type) \o ":" \o fmt_int(track_nr) \o "]"
                   \o hw_dl \o filter

\* the track-transition branch (*last != track_nr): the new chain text
chain_new_track(chain, position, last, filter, track_nr, filter_type) ==
    LET selector == IF chain = "" THEN ""
                    ELSE "[" \o fmt_type(filter_type) \o "out" \o fmt_int(last) \o "]"
        sep      == IF chain = "" THEN "" ELSE ";"
        hw_dl    == IF hw_context /\ ~is_hw(filter) /\ filter_type = "Video"
                    THEN "hwdownload,format=nv12,"
                    ELSE ""
    IN  IF starts_with(filter, "aevalsrc") \/ starts_with(filter, "movie")
        THEN chain \o selector \o sep \o filter
        ELSE chain \o selector \o sep \o "[" \o fmt_int(position) \o ":"
                   \o fmt_type(filter_type) \o ":" \o fmt_int(track_nr) \o "]"
                   \o hw_dl \o filter

\* the label registered for a track on a transition
out_label(filter_type, track_nr) ==
    "[" \o fmt_type(filter_type) \o "out" \o fmt_int(track_nr) \o "]"

\* same track, link-expression branch
is_link_expression(chain, filter) ==
    \/ starts_with(filter, ";")
    \/ starts_with(filter, "[")
    \/ starts_with(filter, "movie")
    \/ ends_with(chain, "[")

chain_link_expression(chain, filter) ==
    LET c1 == chain \o hw_upload(config, chain, filter)
        c2 == c1 \o hw_download(c1, filter)
    IN  c2 \o filter

\* mutant of chain_overlay: the end of the chain is not looked at
chain_overlay_always_upload(chain, filter) ==
    LET c1 == IF hw_context
              THEN chain \o "," \o hw_upload_str(config)
              ELSE chain
    IN  c1 \o "[l];[v][l]" \o filter

\* same track, overlay branch
chain_overlay(chain, filter) ==
    LET c1 == IF hw_context /\ ~last_is_hw(chain)
              THEN chain \o "," \o hw_upload_str(config)
              ELSE chain
    IN  c1 \o "[l];[v][l]" \o filter

\* mutant of chain_ordinary: no upload in front of a filter ending with ;
chain_ordinary_no_trailing(chain, filter) ==
    LET hw_ul == hw_upload(config, chain, filter)
        hw_up == hw_download(chain, filter)
        c1 == IF hw_ul # "" \/ hw_up # ""
              THEN chain \o "," \o hw_ul \o hw_up
              ELSE chain
    IN  c1 \o "," \o filter

\* same track, ordinary branch
chain_ordinary(chain, filter) ==
    LET hw_ul == hw_upload(config, chain, filter)
        hw_up == hw_download(chain, filter)
        c1 == IF hw_ul # "" \/ hw_up # ""
              THEN chain \o "," \o hw_ul \o hw_up
              ELSE IF hw_context /\ ~last_is_hw(chain) /\ ends_with(filter, ";")
                   THEN chain \o "," \o hw_upload_str(config)
                   ELSE chain
    IN  c1 \o "," \o filter

\* mutant of chain_same_track: the overlay test comes first
chain_same_track_overlay_first(chain, filter) ==
    IF contains(filter, "overlay") THEN chain_overlay(chain, filter)
    ELSE IF is_link_expression(chain, filter)
         THEN chain_link_expression(chain, filter)
         ELSE chain_ordinary(chain, filter)

\* the else-if ladder of the same-track continuation
chain_same_track(chain, filter) ==
    IF is_link_expression(chain, filter) THEN chain_link_expression(chain, filter)
    ELSE IF contains(filter, "overlay") THEN chain_overlay(chain, filter)
    ELSE chain_ordinary(chain, filter)

\* the chain of the selected half after add_filter
chain_after(chain, position, last, filter, track_nr, filter_type) ==
    IF last # track_nr
    THEN chain_new_track(chain, position, last, filter, track_nr, filter_type)
    ELSE chain_same_track(chain, filter)

\* mutant of map_after: a label is registered on every call
map_after_every_call(m, last, track_nr, filter_type) ==
    Append(m, "[" \o fmt_type(filter_type) \o "out" \o fmt_int(track_nr) \o "]")

\* the label list of the selected half after add_filter
map_after(m, last, track_nr, filter_type) ==
    IF last # track_nr THEN Append(m, out_label(filter_type, track_nr)) ELSE m

\* Filters.output_map after add_filter
output_map_after(last, track_nr, filter_type) ==
    IF last # track_nr
    THEN output_map \o << "-map", out_label(filter_type, track_nr) >>
    ELSE output_map

\* mutant of add_filter_half: the audio branch stores the track number in
\* the video marker as well
add_filter_half_shared_marker(filter, track_nr, filter_type) ==
    IF filter_type = "Audio"
    THEN /\ audio_chain' = chain_after(audio_chain, audio_position, audio_last,
                                       filter, track_nr, filter_type)
         /\ audio_map' = map_after(audio_map, audio_last, track_nr, filter_type)
         /\ output_map' = output_map_after(audio_last, track_nr, filter_type)
         /\ audio_last' = track_nr
         /\ video_last' = track_nr
         /\ UNCHANGED <<video_chain, video_map>>
    ELSE /\ video_chain' = chain_after(video_chain, video_position, video_last,
                                       filter, track_nr, filter_type)
         /\ video_map' = map_after(video_map, video_last, track_nr, filter_type)
         /\ output_map' = output_map_after(video_last, track_nr, filter_type)
         /\ video_last' = track_nr
         /\ UNCHANGED <<audio_chain, audio_map, audio_last>>

\* the writes of add_filter to the selected half and to output_map
add_filter_half(filter, track_nr, filter_type) ==
    IF filter_type = "Audio"
    THEN /\ audio_chain' = chain_after(audio_chain, audio_position, audio_last,
                                       filter, track_nr, filter_type)
         /\ audio_map' = map_after(audio_map, audio_last, track_nr, filter_type)
         /\ output_map' = output_map_after(audio_last, track_nr, filter_type)
         /\ audio_last' = track_nr
         /\ UNCHANGED <<video_chain, video_map, video_last>>
    ELSE /\ video_chain' = chain_after(video_chain, video_position, video_last,
                                       filter, track_nr, filter_type)
         /\ video_map' = map_after(video_map, video_last, track_nr, filter_type)
         /\ output_map' = output_map_after(video_last, track_nr, filter_type)
         /\ video_last' = track_nr
         /\ UNCHANGED <<audio_chain, audio_map, audio_last>>

add_filter(filter, track_nr, filter_type) ==
    /\ add_filter_half(filter, track_nr, filter_type)
    /\ UNCHANGED <<config, hw_context, output_chain, audio_out_link,
                   video_out_link, audio_position, video_position>>

---------------------------------------------------------------------------
(* Filters::cmd and Filters::map.  Both take &mut self and write nothing.  *)

\* v_chain and a_chain of cmd(): the chain with its closing label
cmd_v_chain ==
    IF video_last >= 0 /\ ~ends_with(video_chain, "]")
    THEN video_chain \o "[vout" \o fmt_int(video_last) \o "]"
    ELSE video_chain

cmd_a_chain ==
    IF audio_last >= 0 /\ ~ends_with(audio_chain, "]")
    THEN audio_chain \o "[aout" \o fmt_int(audio_last) \o "]"
    ELSE audio_chain

\* f_chain of cmd()
cmd_f_chain ==
    IF cmd_a_chain # ""
    THEN (IF cmd_v_chain # "" THEN cmd_v_chain \o ";" ELSE cmd_v_chain)
         \o cmd_a_chain
    ELSE cmd_v_chain

\* mutant of cmd: the flag is pushed although the graph is empty
cmd_unconditional ==
    IF output_chain # <<>> THEN output_chain
    ELSE << "-filter_complex", cmd_f_chain >>

\* mutant of cmd: the audio half is put first
cmd_audio_first ==
    IF output_chain # <<>> THEN output_chain
    ELSE LET f == IF cmd_v_chain # ""
                  THEN (IF cmd_a_chain # "" THEN cmd_a_chain \o ";" ELSE cmd_a_chain)
                       \o cmd_v_chain
                  ELSE cmd_a_chain
         IN  IF f # "" THEN << "-filter_complex", f >> ELSE << >>

\* mutant of cmd: the override is not looked at
cmd_no_override ==
    IF cmd_f_chain # "" THEN << "-filter_complex", cmd_f_chain >> ELSE << >>

cmd ==
    IF output_chain # <<>> THEN output_chain
    ELSE IF cmd_f_chain # "" THEN << "-filter_complex", cmd_f_chain >>
    ELSE << >>

\* the loop over 0..audio_tracks of map(), from index i on
RECURSIVE map_audio_default(_, _)
map_audio_default(o_map, i) ==
    IF i >= config.audio_tracks THEN o_map
    ELSE LET a_map == fmt_int(audio_position) \o ":a:" \o fmt_int(i)
         IN  map_audio_default(
                 IF ~vec_contains(o_map, a_map) THEN o_map \o << "-map", a_map >>
                 ELSE o_map,
                 i + 1)

\* o_map of map() after the default video map
map_video_default ==
    IF video_last = -1 /\ ~config.audio_only /\ ~vec_contains(output_map, "0:v")
    THEN output_map \o << "-map", "0:v" >>
    ELSE output_map

\* mutant of map: the default video map does not depend on audio_only
map_ignoring_audio_only ==
    LET o_map == IF video_last = -1 /\ ~vec_contains(output_map, "0:v")
                 THEN output_map \o << "-map", "0:v" >>
                 ELSE output_map
    IN  IF audio_last = -1 THEN map_audio_default(o_map, 0) ELSE o_map

\* mutant of map: the default audio maps do not depend on the audio marker
map_always_audio_default == map_audio_default(map_video_default, 0)

map == IF audio_last = -1 THEN map_audio_default(map_video_default, 0)
       ELSE map_video_default

---------------------------------------------------------------------------
(* split_filter, with advanced.filter.split unset (the built-in format).   *)

\* the loop over 0..count that collects the out links, from index i on
RECURSIVE split_links(_, _, _, _, _)
split_links(out_link, filter_type, nr, count, i) ==
    IF i >= count THEN out_link
    ELSE LET link == "[" \o fmt_type(filter_type) \o "out_" \o fmt_int(nr) \o "_"
                         \o fmt_int(i) \o "]"
         IN  split_links(
                 IF ~vec_contains(out_link, link) THEN Append(out_link, link)
                 ELSE out_link,
                 filter_type, nr, count, i + 1)

split_text(out_link) == "split=" \o fmt_int(config.output_count) \o join(out_link)

split_filter(nr, filter_type) ==
    LET count == config.output_count
        links == split_links(IF filter_type = "Audio" THEN audio_out_link
                             ELSE video_out_link,
                             filter_type, nr, count, 0)
    IN  IF count > 1
        THEN /\ add_filter_half(split_text(links), nr, filter_type)
             /\ IF filter_type = "Audio"
                THEN audio_out_link' = links /\ UNCHANGED video_out_link
                ELSE video_out_link' = links /\ UNCHANGED audio_out_link
             /\ UNCHANGED <<config, hw_context, output_chain, audio_position,
                            video_position>>
        ELSE UNCHANGED <<config, graph>>

---------------------------------------------------------------------------
(* process_output_filters.                                                 *)

\* end of the maximal run of characters of class cls that starts at i
RECURSIVE run_end(_, _, _)
run_end(s, i, cls) ==
    IF i <= Len(s) /\ CharAt(s, i) \in cls THEN run_end(s, i + 1, cls) ELSE i

\* Regex \[[0:]+[v^\[]+([:0]+)?\] anchored at p: the index of the closing
\* bracket of the match, 0 if there is none.  The three classes are
\* pairwise disjoint from what must follow them, so every run is maximal.
re_v_match(s, p) ==
    IF CharAt(s, p) # "[" THEN 0
    ELSE LET a == run_end(s, p + 1, {"0", ":"})
             b == run_end(s, a, {"v", "^", "["})
             c == run_end(s, b, {":", "0"})
         IN  IF a > p + 1 /\ b > a /\ c <= Len(s) /\ CharAt(s, c) = "]" THEN c
             ELSE 0

\* Regex::replace: the leftmost match only (rep holds no $ group reference)
re_v_replace(s, rep) ==
    LET hits == {p \in 1..Len(s) : re_v_match(s, p) > 0}
    IN  IF hits = {} THEN s
        ELSE LET p == CHOOSE q \in hits : \A r \in hits : q <= r
             IN  SubSeq(s, 1, p - 1) \o rep \o SubSeq(s, re_v_match(s, p) + 1, Len(s))

\* audio_chain.split(';').enumerate().map(|(i, p)| p.replace("[aout{i}]", ""))
audio_split_of(chain) ==
    LET parts == split(chain, {";"})
    IN  [k \in 1..Len(parts) |->
            replace(parts[k], "[aout" \o fmt_int(k - 1) \o "]", "")]

\* the loop over 0..audio_tracks that substitutes [0:a:i], from index i on
RECURSIVE replace_audio(_, _, _)
replace_audio(cf, audio_split, i) ==
    IF i >= config.audio_tracks THEN cf
    ELSE replace_audio(
             replace(cf, "[0:a:" \o fmt_int(i) \o "]", audio_split[i + 1] \o ","),
             audio_split, i + 1)

splices ==
    (config.add_text /\ ~config.text_from_filename) \/ config.mode = "HLS"

\* audio_split[i as usize] is out of range for some i in 0..audio_tracks
merge_panics ==
    /\ splices
    /\ audio_chain # ""
    /\ Len(audio_split_of(audio_chain)) < config.audio_tracks

merged(custom_filter) ==
    IF splices
    THEN LET cf1 == IF video_chain # ""
                    THEN re_v_replace(custom_filter, video_chain \o ",")
                    ELSE custom_filter
         IN  IF audio_chain # ""
             THEN replace_audio(cf1, audio_split_of(audio_chain), 0)
             ELSE cf1
    ELSE custom_filter

process_output_filters(custom_filter) ==
    IF merge_panics
    THEN aborted' = TRUE /\ UNCHANGED <<config, graph>>
    ELSE /\ output_chain' = << "-filter_complex", merged(custom_filter) >>
         /\ UNCHANGED <<config, hw_context, audio_chain, video_chain, audio_map,
                        video_map, audio_out_link, video_out_link, output_map,
                        audio_position, video_position, audio_last, video_last,
                        aborted>>

---------------------------------------------------------------------------
(* Configurations and inputs.                                              *)

\* output.output_filter of the configurations that set one
Template == "[0:v]null[o];[0:a:0]anull[p];[0:a:1]anull[q]"

\* The fields of PlayoutConfig that Filters and its stages read here:
\* advanced.decoder.input_param, processing.audio_only,
\* processing.audio_tracks, text.add_text, text.text_from_filename,
\* output.mode, output.output_filter, output.output_count.
DefaultConfig ==
    [ input_param |-> {}, audio_only |-> FALSE, audio_tracks |-> 1,
      add_text |-> FALSE, text_from_filename |-> FALSE, mode |-> "Stream",
      output_filter |-> {}, output_count |-> 1 ]

\* hardware decoding (VAAPI), HLS output with an output filter, two outputs
HlsConfig ==
    [ input_param |-> {"-hwaccel vaapi"}, audio_only |-> FALSE, audio_tracks |-> 2,
      add_text |-> FALSE, text_from_filename |-> FALSE, mode |-> "HLS",
      output_filter |-> {Template}, output_count |-> 2 ]

\* hardware decoding (CUDA), audio only, complex-mode text overlay
CudaConfig ==
    [ input_param |-> {"-hwaccel cuda"}, audio_only |-> TRUE, audio_tracks |-> 1,
      add_text |-> TRUE, text_from_filename |-> FALSE, mode |-> "Stream",
      output_filter |-> {Template}, output_count |-> 1 ]

\* text from the file name, output filter taken as it is, two outputs
TextConfig ==
    [ input_param |-> {}, audio_only |-> FALSE, audio_tracks |-> 2,
      add_text |-> TRUE, text_from_filename |-> TRUE, mode |-> "Stream",
      output_filter |-> {Template}, output_count |-> 2 ]

Configs == { DefaultConfig, HlsConfig, CudaConfig, TextConfig }

\* the arguments of Filters::new: a configuration and the audio input
\* position (1 when the audio comes from a second input)
NewArgs ==
    { <<DefaultConfig, 0>>, <<HlsConfig, 1>>, <<CudaConfig, 0>>, <<TextConfig, 1>> }

\* filter expressions handed to add_filter: a plain filter, a hardware
\* filter, one that ends with ; and one that begins with ; for video, a
\* plain filter and a source generator for audio
VideoFilters == { "null", "scale_cuda", "null[v];", ";[v]null" }

AudioFilters == { "anull", "aevalsrc=0" }

FiltersOf(filter_type) == IF filter_type = "Audio" THEN AudioFilters ELSE VideoFilters

\* track numbers handed to add_filter.  add_filter only compares the number
\* with the marker and prints it, so two numbers give a first visit, a
\* same-track call, a switch and a return to an earlier track.
Tracks == {0, 1}

---------------------------------------------------------------------------
(* Filters::new, and the operations applied to one graph state.            *)

\* no thread runs beside the caller of the graph operations
NoMail ==
    /\ messages = << >>
    /\ last_messages = << "" >>
    /\ locks = [m \in {"messages", "last_messages"} |-> ""]
    /\ poisoned = {}
    /\ thread_pc = [t \in {"queue", "worker"} |-> "idle"]
    /\ record = [t \in {"queue", "worker"} |-> [level |-> "Error", text |-> ""]]

NoValidation ==
    /\ program = << >>
    /\ current_list = << >>
    /\ begin = 0
    /\ index = 0
    /\ v_pc = "idle"
    /\ v_log = << >>

NoThreads ==
    /\ is_terminated = FALSE
    /\ NoValidation
    /\ NoMail

Init ==
    /\ \E args \in NewArgs : config = args[1] /\ audio_position = args[2]
    /\ hw_context = is_some_and_contains(config.input_param, "-hw")
    /\ audio_chain = ""
    /\ video_chain = ""
    /\ output_chain = << >>
    /\ audio_map = << >>
    /\ video_map = << >>
    /\ audio_out_link = << >>
    /\ video_out_link = << >>
    /\ output_map = << >>
    /\ video_position = 0
    /\ audio_last = -1
    /\ video_last = -1
    /\ calls = << >>
    /\ aborted = FALSE
    /\ node = << >>
    /\ pc = "caller"
    /\ idx = 0
    /\ NoThreads

Ready == ~aborted /\ Len(calls) < MaxCalls

AddFilter ==
    \E filter_type \in FilterType, track_nr \in Tracks :
        \E filter \in FiltersOf(filter_type) :
            /\ Ready
            /\ add_filter(filter, track_nr, filter_type)
            /\ calls' = Append(calls, [op |-> "add_filter", filter |-> filter,
                                       nr |-> track_nr, type |-> filter_type])
            /\ UNCHANGED <<aborted, run, threads>>

SplitFilter ==
    \E filter_type \in FilterType, nr \in Tracks :
        /\ Ready
        /\ split_filter(nr, filter_type)
        /\ calls' = Append(calls, [op |-> "split_filter", filter |-> "",
                                   nr |-> nr, type |-> filter_type])
        /\ UNCHANGED <<aborted, run, threads>>

ProcessOutputFilters ==
    \E custom_filter \in config.output_filter :
        /\ Ready
        /\ process_output_filters(custom_filter)
        /\ calls' = Append(calls, [op |-> "process_output_filters",
                                   filter |-> custom_filter, nr |-> 0,
                                   type |-> "Video"])
        /\ UNCHANGED <<run, threads>>

Next == AddFilter \/ SplitFilter \/ ProcessOutputFilters

Spec == Init /\ [][Next]_vars

---------------------------------------------------------------------------
(* Numbers and helpers of player::utils that the effect stages use.        *)
(* An f64 is held in thousandths (1.778 is 1778); the values that occur    *)
(* are sums and differences of such numbers.                               *)

\* Display of an f64: the integer part, and the decimals without trailing
\* zeros when there are any
fmt_f64(x) ==
    LET a  == IF x < 0 THEN 0 - x ELSE x
        d1 == (a % 1000) \div 100
        d2 == (a % 100) \div 10
        d3 == a % 10
        frac == IF d3 # 0 THEN ToString(d1) \o ToString(d2) \o ToString(d3)
                ELSE IF d2 # 0 THEN ToString(d1) \o ToString(d2)
                ELSE ToString(d1)
    IN  (IF x < 0 THEN "-" ELSE "") \o ToString(a \div 1000)
        \o (IF a % 1000 = 0 THEN "" ELSE "." \o frac)

\* utils::is_close(a, b, to): the two values differ by less than to
is_close(a, b, to) == (IF a > b THEN a - b ELSE b - a) < to

\* utils::fraction(d, max): the fraction nearest to d with a denominator of
\* at most max, in lowest terms (the smallest denominator among the nearest)
fraction(d, max) ==
    LET num(q)  == (d * q + 500) \div 1000
        err(q)  == LET e == num(q) * 1000 - d * q IN IF e < 0 THEN 0 - e ELSE e
        \* err(q) / q < err(r) / r
        nearer(q, r) == err(q) * r < err(r) * q
        best == CHOOSE q \in 1..max :
                    /\ \A r \in 1..max : ~nearer(r, q)
                    /\ \A r \in 1..(q - 1) : nearer(q, r)
    IN  << num(best), best >>

\* utils::calc_aspect: the stream's display aspect ratio w:h as an f64, the
\* configured aspect when the stream states none
calc_aspect(cfg, aspect_ratio) ==
    IF aspect_ratio = {} THEN cfg.aspect
    ELSE LET r == CHOOSE r \in aspect_ratio : TRUE
         IN  (r[1] * 1000) \div r[2]

\* utils::fps_calc: the frame rate n/d of the stream as an f64
fps_calc(frame_rate) == (frame_rate[1] * 1000) \div frame_rate[2]

\* utils::custom_format: the {} of the template are filled with the
\* arguments, from left to right; a {} without an argument stays
RECURSIVE custom_format(_, _)
custom_format(template, args) ==
    LET hits == {i \in 1..(Len(template) - 1) : SubSeq(template, i, i + 1) = "{}"}
    IN  IF hits = {} \/ args = << >> THEN template
        ELSE LET i == CHOOSE h \in hits : \A g \in hits : h <= g
             IN  SubSeq(template, 1, i - 1) \o Head(args)
                 \o custom_format(SubSeq(template, i + 2, Len(template)), Tail(args))

\* custom::filter_node: the video part and the audio part of a custom
\* filter setting
filter_node(custom_filter) == << custom_filter.video, custom_filter.audio >>

\* v_drawtext::filter_node: the drawtext expression, with the title of the
\* item in file-name mode and behind a zmq receiver otherwise
drawtext_filter_node(cfg) ==
    IF cfg.text_from_filename THEN "drawtext=text='title'"
    ELSE "zmq=b=tcp\\\\://127.0.0.1\\\\:5555,drawtext@dyntext=text=''"

\* Option<T> as a set: the value it holds
unwrap(opt) == CHOOSE v \in opt : TRUE

---------------------------------------------------------------------------
(* The effect stages.  Each is the record of its condition (runs) and of   *)
(* the expression it hands to add_filter (filter).  Of the                 *)
(* advanced.filter templates only the scale template is set in the         *)
(* configurations explored; every other stage formats its built-in         *)
(* expression.                                                             *)

\* probe.video.first(), when the item was probed and has a video stream
has_v_stream == node.probe # {} /\ Len(unwrap(node.probe).video) > 0
v_stream == unwrap(node.probe).video[1]

deinterlace(field_order) ==
    [ runs   |-> \E order \in field_order : order # "progressive",
      filter |-> "yadif=0:-1:0" ]

pad(aspect) ==
    [ runs   |-> ~is_close(aspect, config.aspect, 30),
      filter |-> LET f == fraction(config.aspect, 100)
                 IN  "pad='ih*" \o fmt_int(f[1]) \o "/" \o fmt_int(f[2])
                     \o ":ih:(ow-iw)/2:(oh-ih)/2'" ]

fps(fps_in) ==
    [ runs   |-> fps_in # config.fps,
      filter |-> "fps=" \o fmt_f64(config.fps) ]

\* mutant of scale: nothing is appended when there is nothing to scale
scale_without_noop(width, height) ==
    [ runs   |-> \/ config.scale # {}
                 \/ \E w \in width : w # config.width
                 \/ \E h \in height : h # config.height,
      filter |-> "scale=" \o fmt_int(config.width) \o ":" \o fmt_int(config.height) ]

\* scale(): the template, the built-in scale when a probed dimension
\* differs from the target, the no-op otherwise; always appended
scale(width, height) ==
    [ runs   |-> TRUE,
      filter |-> IF config.scale # {}
                 THEN custom_format(unwrap(config.scale),
                                    << fmt_int(config.width), fmt_int(config.height) >>)
                 ELSE IF (\E w \in width : w # config.width)
                         \/ (\E h \in height : h # config.height)
                 THEN "scale=" \o fmt_int(config.width) \o ":"
                      \o fmt_int(config.height)
                 ELSE "null" ]

\* mutant of setdar: the aspects are compared without the tolerance
setdar_exact(aspect) ==
    [ runs   |-> aspect # config.aspect,
      filter |-> "setdar=dar=" \o fmt_f64(config.aspect) ]

setdar(aspect) ==
    [ runs   |-> ~is_close(aspect, config.aspect, 30),
      filter |-> "setdar=dar=" \o fmt_f64(config.aspect) ]

\* mutant of fade: the unit of the item is not looked at for the fade-in
fade_in_seek_only(filter_type) ==
    LET t == IF filter_type = "Audio" THEN "a" ELSE ""
        fade_audio == /\ filter_type = "Audio"
                      /\ node.duration_audio > 0
                      /\ node.duration_audio # node.duration
    IN  [ in_runs    |-> node.seek > 0,
          in_filter  |-> t \o "fade=in:st=0:d=0.5",
          out_runs   |-> \/ node.out # node.duration /\ node.out - node.seek > 1000
                         \/ fade_audio,
          out_filter |-> t \o "fade=out:st="
                         \o fmt_f64(node.out - node.seek - 1000) \o ":d=1.0" ]

\* mutant of fade: the fade-out does not look at the end of the item
fade_out_any_end(filter_type) ==
    LET t == IF filter_type = "Audio" THEN "a" ELSE ""
        fade_audio == /\ filter_type = "Audio"
                      /\ node.duration_audio > 0
                      /\ node.duration_audio # node.duration
    IN  [ in_runs    |-> node.seek > 0 \/ node.unit = "Ingest",
          in_filter  |-> t \o "fade=in:st=0:d=0.5",
          out_runs   |-> node.out - node.seek > 1000 \/ fade_audio,
          out_filter |-> t \o "fade=out:st="
                         \o fmt_f64(node.out - node.seek - 1000) \o ":d=1.0" ]

\* fade(): the fade-in and the fade-out of one track
fade(filter_type) ==
    LET t == IF filter_type = "Audio" THEN "a" ELSE ""
        fade_audio == /\ filter_type = "Audio"
                      /\ node.duration_audio > 0
                      /\ node.duration_audio # node.duration
    IN  [ in_runs    |-> node.seek > 0 \/ node.unit = "Ingest",
          in_filter  |-> t \o "fade=in:st=0:d=0.5",
          out_runs   |-> \/ node.out # node.duration /\ node.out - node.seek > 1000
                         \/ fade_audio,
          out_filter |-> t \o "fade=out:st="
                         \o fmt_f64(node.out - node.seek - 1000) \o ":d=1.0" ]

\* mutant of overlay: the category of the item is not looked at
overlay_any_category ==
    LET logo_path == replace(replace(config.logo_path, "\\", "/"), ":", "\\\\:")
    IN  [ runs     |-> config.add_logo /\ config.logo_is_file,
          movie    |-> "movie=" \o logo_path
                       \o ":loop=0,setpts=N/(FRAME_RATE*TB),format=rgba,colorchannelmixer=aa="
                       \o fmt_f64(config.logo_opacity),
          fade_in  |-> "fade=in:st=0:d=1.0:alpha=1",
          fade_out |-> "fade=out:st=" \o fmt_f64(node.out - node.seek - 1000)
                       \o ":d=1.0:alpha=1",
          scale    |-> "scale=" \o config.logo_scale,
          overlay  |-> "overlay=" \o config.logo_position \o ":shortest=1" ]

\* overlay(): the condition of the logo group and its expressions
overlay ==
    LET logo_path == replace(replace(config.logo_path, "\\", "/"), ":", "\\\\:")
    IN  [ runs     |-> /\ config.add_logo
                       /\ config.logo_is_file
                       /\ node.category # "advertisement",
          movie    |-> "movie=" \o logo_path
                       \o ":loop=0,setpts=N/(FRAME_RATE*TB),format=rgba,colorchannelmixer=aa="
                       \o fmt_f64(config.logo_opacity),
          fade_in  |-> "fade=in:st=0:d=1.0:alpha=1",
          fade_out |-> "fade=out:st=" \o fmt_f64(node.out - node.seek - 1000)
                       \o ":d=1.0:alpha=1",
          scale    |-> "scale=" \o config.logo_scale,
          overlay  |-> "overlay=" \o config.logo_position \o ":shortest=1" ]

\* extend_video(): the probed video stream is shorter than the item
extend_video ==
    LET video_duration == IF has_v_stream THEN v_stream.duration ELSE {}
    IN  [ runs   |-> \E d \in video_duration :
                         /\ node.out - node.seek > d - node.seek + 100
                         /\ node.duration >= node.out,
          filter |-> IF video_duration = {} THEN ""
                     ELSE "tpad=stop_mode=add:stop_duration="
                          \o fmt_f64((node.out - node.seek)
                                     - (unwrap(video_duration) - node.seek)) ]

add_text ==
    [ runs   |-> /\ config.add_text
                 /\ \/ config.text_from_filename
                    \/ config.mode = "HLS"
                    \/ node.unit = "Encoder",
      filter |-> drawtext_filter_node(config) ]

\* mutant of add_audio: the unit of the item is not looked at
add_audio_any_unit ==
    [ runs   |-> ~contains(node.source, "color=c="),
      filter |-> "aevalsrc=0:channel_layout=stereo:duration="
                 \o fmt_f64(node.out - node.seek) \o ":sample_rate=48000" ]

\* add_audio(), with the condition under which filter_chains calls it for
\* a track that is missing
add_audio ==
    [ runs   |-> node.unit = "Decoder" /\ ~contains(node.source, "color=c="),
      filter |-> "aevalsrc=0:channel_layout=stereo:duration="
                 \o fmt_f64(node.out - node.seek) \o ":sample_rate=48000" ]

\* extend_audio(): the first probed audio stream is shorter than the item
extend_audio ==
    LET audio_duration ==
            IF node.probe # {} /\ Len(unwrap(node.probe).audio) > 0
            THEN unwrap(node.probe).audio[1].duration
            ELSE {}
    IN  [ runs   |-> /\ ~node.audio_is_file
                     /\ \E d \in audio_duration :
                            /\ node.out - node.seek > d - node.seek + 100
                            /\ node.duration >= node.out,
          filter |-> "apad=whole_dur=" \o fmt_f64(node.out - node.seek) ]

audio_volume ==
    [ runs   |-> config.volume # 1000,
      filter |-> "volume=" \o fmt_f64(config.volume) ]

\* custom(): an empty filter is not appended
custom(filter) == [ runs |-> filter # "", filter |-> filter ]

---------------------------------------------------------------------------
(* Configurations and media items handed to filter_chains.                 *)

\* no custom filter, and a custom filter with a video and an audio part
NoCustom == [ video |-> "", audio |-> "" ]
BothCustom == [ video |-> "hue=s=0", audio |-> "atempo=1.5" ]
ItemCustom == [ video |-> "negate", audio |-> "aecho" ]
LinkedCustom == [ video |-> "", audio |-> "volume=0.5[x];[x]aecho" ]

\* The fields of PlayoutConfig that filter_chains and its stages read:
\* those of DefaultConfig, and processing.copy_video, copy_audio,
\* audio_track_index, width, height, aspect, fps, volume, add_logo,
\* logo_path (and whether it is a file), logo_opacity, logo_scale,
\* logo_position, custom_filter, ingest.custom_filter and
\* advanced.filter.scale.
PlainConfig ==
    [ input_param |-> {}, audio_only |-> FALSE, audio_tracks |-> 1,
      add_text |-> FALSE, text_from_filename |-> FALSE, mode |-> "Stream",
      output_filter |-> {}, output_count |-> 1,
      copy_video |-> FALSE, copy_audio |-> FALSE, audio_track_index |-> -1,
      width |-> 1024, height |-> 576, aspect |-> 1778, fps |-> 25000,
      volume |-> 1000, add_logo |-> FALSE, logo_path |-> "c:/logo.png",
      logo_is_file |-> FALSE, logo_opacity |-> 700, logo_scale |-> "",
      logo_position |-> "W-w-12:12", custom_filter |-> NoCustom,
      ingest_custom_filter |-> NoCustom, scale |-> {} ]

\* logo with a scale, volume, custom filters, two audio tracks, two outputs
LogoConfig ==
    [ PlainConfig EXCEPT !.audio_tracks = 2, !.output_count = 2,
                         !.add_logo = TRUE,
                         !.logo_is_file = TRUE, !.logo_scale = "100:-1",
                         !.volume = 500, !.custom_filter = BothCustom,
                         !.ingest_custom_filter = ItemCustom ]

\* HLS with an output filter, text over zmq, two audio tracks, two outputs;
\* the logo is enabled but its file does not exist
HlsTextConfig ==
    [ PlainConfig EXCEPT !.audio_tracks = 2, !.add_text = TRUE, !.mode = "HLS",
                         !.output_filter = {Template}, !.output_count = 2,
                         !.add_logo = TRUE ]

\* HLS with an output filter and one pinned audio track out of two
HlsPinnedConfig ==
    [ PlainConfig EXCEPT !.audio_tracks = 2, !.audio_track_index = 1,
                         !.mode = "HLS", !.output_filter = {Template} ]

\* HLS with an output filter, two audio tracks and a custom audio filter of
\* two linked filters
HlsCustomConfig ==
    [ PlainConfig EXCEPT !.audio_tracks = 2, !.mode = "HLS",
                         !.output_filter = {Template},
                         !.custom_filter = LinkedCustom ]

\* audio copied, with a pinned audio track (logged as an error)
CopyAudioConfig ==
    [ PlainConfig EXCEPT !.copy_audio = TRUE, !.audio_track_index = 0,
                         !.audio_tracks = 2,
                         !.add_logo = TRUE, !.logo_is_file = TRUE ]

\* video copied, custom filters set
CopyVideoConfig ==
    [ PlainConfig EXCEPT !.copy_video = TRUE, !.custom_filter = BothCustom,
                         !.audio_tracks = 2 ]

\* audio only, text and custom filters set, two outputs
AudioOnlyConfig ==
    [ PlainConfig EXCEPT !.audio_only = TRUE, !.add_text = TRUE,
                         !.text_from_filename = TRUE,
                         !.custom_filter = BothCustom, !.output_count = 2 ]

\* hardware decoding (CUDA) with a scale template
CudaScaleConfig ==
    [ PlainConfig EXCEPT !.input_param = {"-hwaccel cuda"},
                         !.scale = {"scale_cuda={}:{}"} ]

\* text from the file name, two outputs, no output filter
SplitTextConfig ==
    [ PlainConfig EXCEPT !.add_text = TRUE, !.text_from_filename = TRUE,
                         !.output_count = 2, !.add_logo = TRUE,
                         !.logo_is_file = TRUE ]

PlayoutConfigs ==
    { PlainConfig, LogoConfig, HlsTextConfig, HlsPinnedConfig, HlsCustomConfig,
      CopyAudioConfig, CopyVideoConfig, AudioOnlyConfig, CudaScaleConfig,
      SplitTextConfig }

\* probed streams: 16:9 progressive at the target size and rate; 4:3
\* interlaced at 30 fps; 9:5 (within the aspect tolerance) and shorter than
\* the item
Video169 ==
    [ width |-> {1024}, height |-> {576}, aspect_ratio |-> { <<16, 9>> },
      frame_rate |-> <<25, 1>>, field_order |-> {"progressive"},
      duration |-> {20000} ]

Video43 ==
    [ width |-> {768}, height |-> {576}, aspect_ratio |-> { <<4, 3>> },
      frame_rate |-> <<30, 1>>, field_order |-> {"tt"}, duration |-> {20000} ]

Video95 ==
    [ width |-> {}, height |-> {}, aspect_ratio |-> { <<9, 5>> },
      frame_rate |-> <<25, 1>>, field_order |-> {}, duration |-> {12500} ]

Audio20 == [ duration |-> {20000} ]
Audio12 == [ duration |-> {12500} ]

\* The fields of Media that filter_chains and its stages read: unit,
\* source, audio (whether it is a file), probe, seek, out, duration,
\* duration_audio, category, last_ad, next_ad, custom_filter.
FileItem ==
    [ unit |-> "Decoder", source |-> "a.mp4", audio_is_file |-> FALSE,
      probe |-> { [ video |-> << Video169 >>, audio |-> << Audio20, Audio20 >> ] },
      seek |-> 0, out |-> 20000, duration |-> 20000, duration_audio |-> 0,
      category |-> "", last_ad |-> FALSE, next_ad |-> FALSE,
      custom_filter |-> NoCustom ]

\* 4:3 interlaced, one audio stream, played from 5 s to 15 s, after an ad
Item43 ==
    [ FileItem EXCEPT !.probe = { [ video |-> << Video43 >>, audio |-> << Audio20 >> ] },
                      !.seek = 5000, !.out = 15000, !.last_ad = TRUE,
                      !.custom_filter = ItemCustom ]

\* streams shorter than the item, before an ad
ShortItem ==
    [ FileItem EXCEPT !.probe = { [ video |-> << Video95 >>, audio |-> << Audio12 >> ] },
                      !.next_ad = TRUE ]

\* a file without an audio stream
SilentItem ==
    [ FileItem EXCEPT !.probe = { [ video |-> << Video169 >>, audio |-> << >> ] },
                      !.last_ad = TRUE, !.next_ad = TRUE ]

\* a file that was not probed
UnprobedItem == [ FileItem EXCEPT !.probe = {} ]

\* an audio file beside a probed file without a video stream; an ad
AudioFileItem ==
    [ FileItem EXCEPT !.probe = { [ video |-> << >>, audio |-> << Audio20 >> ] },
                      !.audio_is_file = TRUE, !.duration_audio = 12500,
                      !.category = "advertisement" ]

\* the live ingest stream
IngestItem ==
    [ FileItem EXCEPT !.unit = "Ingest", !.source = "rtmp://in", !.probe = {},
                      !.custom_filter = ItemCustom ]

\* the synthetic test source
ColorItem ==
    [ FileItem EXCEPT !.source = "color=c=#121212:s=1024x576:d=20", !.probe = {} ]

\* the item of the continuous encoder
EncoderItem == [ FileItem EXCEPT !.unit = "Encoder", !.source = "", !.probe = {} ]

MediaItems ==
    { FileItem, Item43, ShortItem, SilentItem, UnprobedItem, AudioFileItem,
      IngestItem, ColorItem, EncoderItem }

---------------------------------------------------------------------------
(* filter_chains, statement by statement.  pc names the stage that runs    *)
(* next; every stage either appends through add_filter, recorded in calls  *)
(* under the stage's name, or leaves the graph as it is.                   *)

graph_but_audio_position ==
    <<hw_context, audio_chain, video_chain, output_chain, audio_map, video_map,
      audio_out_link, video_out_link, output_map, video_position, audio_last,
      video_last>>

\* mutant of next_stage: setdar is called before fps
next_stage_setdar_early(p) ==
    CASE p = "deinterlace"      -> "pad"
      [] p = "pad"              -> "setdar"
      [] p = "setdar"           -> "fps"
      [] p = "fps"              -> "scale"
      [] p = "scale"            -> IF has_v_stream THEN "extend_video" ELSE "add_text"
      [] p = "extend_video"     -> "add_text"
      [] p = "add_text"         -> "fade_in_v"
      [] p = "fade_in_v"        -> "fade_out_v"
      [] p = "fade_out_v"       -> "overlay_null"
      [] p = "overlay_null"     -> "overlay_movie"
      [] p = "overlay_movie"    -> "overlay_fade_in"
      [] p = "overlay_fade_in"  -> "overlay_fade_out"
      [] p = "overlay_fade_out" -> "overlay_scale"
      [] p = "overlay_scale"    -> "overlay"
      [] p = "overlay"          -> "custom_proc_v"
      [] p = "custom_proc_v"    -> "custom_list_v"
      [] p = "custom_list_v"    -> "audio_tracks"
      [] p = "audio_source"     -> "anull"
      [] p = "anull"            -> "fade_in_a"
      [] p = "fade_in_a"        -> "fade_out_a"
      [] p = "fade_out_a"       -> "audio_volume"
      [] p = "audio_volume"     -> "custom_proc_a"
      [] p = "custom_proc_a"    -> "custom_list_a"

\* the statement that follows the stage p in filter_chains (with a probed
\* video stream scale is followed by setdar, without a probe by add_text)
next_stage(p) ==
    CASE p = "deinterlace"      -> "pad"
      [] p = "pad"              -> "fps"
      [] p = "fps"              -> "scale"
      [] p = "scale"            -> IF has_v_stream THEN "setdar" ELSE "add_text"
      [] p = "setdar"           -> "extend_video"
      [] p = "extend_video"     -> "add_text"
      [] p = "add_text"         -> "fade_in_v"
      [] p = "fade_in_v"        -> "fade_out_v"
      [] p = "fade_out_v"       -> "overlay_null"
      [] p = "overlay_null"     -> "overlay_movie"
      [] p = "overlay_movie"    -> "overlay_fade_in"
      [] p = "overlay_fade_in"  -> "overlay_fade_out"
      [] p = "overlay_fade_out" -> "overlay_scale"
      [] p = "overlay_scale"    -> "overlay"
      [] p = "overlay"          -> "custom_proc_v"
      [] p = "custom_proc_v"    -> "custom_list_v"
      [] p = "custom_list_v"    -> "audio_tracks"
      [] p = "audio_source"     -> "anull"
      [] p = "anull"            -> "fade_in_a"
      [] p = "fade_in_a"        -> "fade_out_a"
      [] p = "fade_out_a"       -> "audio_volume"
      [] p = "audio_volume"     -> "custom_proc_a"
      [] p = "custom_proc_a"    -> "custom_list_a"

\* filters.audio_position = 1 for the synthetic source, and the branch on
\* the unit of the item
Begin ==
    /\ pc = "begin"
    /\ audio_position' = IF contains(node.source, "color=c=") THEN 1
                         ELSE audio_position
    /\ pc' = IF node.unit = "Encoder" THEN "encoder_text" ELSE "probe"
    /\ UNCHANGED <<config, graph_but_audio_position, calls, aborted, node, idx,
                   threads>>

\* the decisions before the video stages: whether they run at all, the
\* audio position when a separate audio file exists, and the first stage
Probe ==
    /\ pc = "probe"
    /\ IF ~config.audio_only /\ ~config.copy_video
       THEN IF node.probe # {}
            THEN /\ audio_position' = IF node.audio_is_file THEN 1
                                      ELSE audio_position
                 /\ pc' = IF has_v_stream THEN "deinterlace" ELSE "extend_video"
            ELSE /\ pc' = "fps"
                 /\ UNCHANGED audio_position
       ELSE /\ pc' = "custom_proc_v"
            /\ UNCHANGED audio_position
    /\ UNCHANGED <<config, graph_but_audio_position, calls, aborted, node, idx,
                   threads>>

\* (proc_vf, proc_af) and (list_vf, list_af)
proc_filter ==
    IF node.unit = "Ingest" THEN filter_node(config.ingest_custom_filter)
    ELSE filter_node(config.custom_filter)

list_filter == filter_node(node.custom_filter)

\* the tracks of the audio loop, and the track of the current round
audio_indexes ==
    IF config.audio_track_index = -1
    THEN [k \in 1..config.audio_tracks |-> k - 1]
    ELSE << config.audio_track_index >>

audio_index == audio_indexes[idx]

\* probe.audio.get(i as usize).is_some() || Path::new(&node.audio).is_file()
has_audio(i) ==
    \/ node.probe # {} /\ i >= 0 /\ i < Len(unwrap(node.probe).audio)
    \/ node.audio_is_file

\* mutant of encoder_text: audio_only is not looked at
encoder_text_audio_only == add_text

\* the encoder branch calls add_text unless audio_only is set
encoder_text ==
    [ runs |-> ~config.audio_only /\ add_text.runs, filter |-> add_text.filter ]

\* mutant of anull: the no-op is appended only to a track without a filter
anull_when_empty ==
    [ runs |-> audio_last # audio_index, filter |-> "anull" ]

\* filters.add_filter("anull", i, Audio)
anull == [ runs |-> TRUE, filter |-> "anull" ]

\* the stages of filter_chains on the video chain and in the audio loop
VideoStages ==
    { "encoder_text", "deinterlace", "pad", "fps", "scale", "setdar",
      "extend_video", "add_text", "fade_in_v", "fade_out_v", "overlay_null",
      "overlay_movie", "overlay_fade_in", "overlay_fade_out", "overlay_scale",
      "overlay", "custom_proc_v", "custom_list_v" }

AudioStages ==
    { "audio_source", "anull", "fade_in_a", "fade_out_a", "audio_volume",
      "custom_proc_a", "custom_list_a" }

\* whether the stage p calls add_filter
stage_runs(p) ==
    CASE p = "encoder_text"     -> encoder_text.runs
      [] p = "deinterlace"      -> deinterlace(v_stream.field_order).runs
      [] p = "pad"              -> pad(calc_aspect(config, v_stream.aspect_ratio)).runs
      [] p = "fps"              -> fps(IF has_v_stream THEN fps_calc(v_stream.frame_rate)
                                       ELSE 0).runs
      [] p = "scale"            -> scale({}, {}).runs
      [] p = "setdar"           -> setdar(calc_aspect(config, v_stream.aspect_ratio)).runs
      [] p = "extend_video"     -> extend_video.runs
      [] p = "add_text"         -> add_text.runs
      [] p = "fade_in_v"        -> fade("Video").in_runs
      [] p = "fade_out_v"       -> fade("Video").out_runs
      [] p = "overlay_null"     -> overlay.runs
      [] p = "overlay_movie"    -> TRUE
      [] p = "overlay_fade_in"  -> node.last_ad
      [] p = "overlay_fade_out" -> node.next_ad
      [] p = "overlay_scale"    -> config.logo_scale # ""
      [] p = "overlay"          -> TRUE
      [] p = "custom_proc_v"    -> ~config.copy_video /\ custom(proc_filter[1]).runs
      [] p = "custom_list_v"    -> ~config.copy_video /\ custom(list_filter[1]).runs
      [] p = "audio_source"     -> IF has_audio(audio_index) THEN extend_audio.runs
                                   ELSE add_audio.runs
      [] p = "anull"            -> anull.runs
      [] p = "fade_in_a"        -> fade("Audio").in_runs
      [] p = "fade_out_a"       -> fade("Audio").out_runs
      [] p = "audio_volume"     -> audio_volume.runs
      [] p = "custom_proc_a"    -> custom(proc_filter[2]).runs
      [] p = "custom_list_a"    -> custom(list_filter[2]).runs

\* the expression the stage p hands to add_filter
stage_filter(p) ==
    CASE p = "encoder_text"     -> encoder_text.filter
      [] p = "deinterlace"      -> deinterlace(v_stream.field_order).filter
      [] p = "pad"              -> pad(calc_aspect(config, v_stream.aspect_ratio)).filter
      [] p = "fps"              -> fps(0).filter
      [] p = "scale"            -> IF has_v_stream
                                   THEN scale(v_stream.width, v_stream.height).filter
                                   ELSE scale({}, {}).filter
      [] p = "setdar"           -> setdar(calc_aspect(config, v_stream.aspect_ratio)).filter
      [] p = "extend_video"     -> extend_video.filter
      [] p = "add_text"         -> add_text.filter
      [] p = "fade_in_v"        -> fade("Video").in_filter
      [] p = "fade_out_v"       -> fade("Video").out_filter
      [] p = "overlay_null"     -> "null[v];"
      [] p = "overlay_movie"    -> overlay.movie
      [] p = "overlay_fade_in"  -> overlay.fade_in
      [] p = "overlay_fade_out" -> overlay.fade_out
      [] p = "overlay_scale"    -> overlay.scale
      [] p = "overlay"          -> overlay.overlay
      [] p = "custom_proc_v"    -> custom(proc_filter[1]).filter
      [] p = "custom_list_v"    -> custom(list_filter[1]).filter
      [] p = "audio_source"     -> IF has_audio(audio_index) THEN extend_audio.filter
                                   ELSE add_audio.filter
      [] p = "anull"            -> anull.filter
      [] p = "fade_in_a"        -> fade("Audio").in_filter
      [] p = "fade_out_a"       -> fade("Audio").out_filter
      [] p = "audio_volume"     -> audio_volume.filter
      [] p = "custom_proc_a"    -> custom(proc_filter[2]).filter
      [] p = "custom_list_a"    -> custom(list_filter[2]).filter

\* the statement that runs after the stage p: next_stage, but the whole
\* logo group is left out when its condition fails, the encoder branch goes
\* on to its output, and the loop body is followed by the next round or by
\* the end of the loop
stage_next(p) ==
    IF p = "encoder_text" THEN "encoder_output"
    ELSE IF p = "overlay_null" /\ ~overlay.runs THEN next_stage("overlay")
    ELSE IF p = "custom_list_a"
    THEN (IF idx < Len(audio_indexes) THEN "audio_source" ELSE "output")
    ELSE next_stage(p)

\* one stage of filter_chains: add_filter, with the values of its
\* arguments, when the condition of the stage holds
Stage(p) ==
    /\ pc = p
    /\ IF stage_runs(p)
       THEN \E f \in {stage_filter(p)},
               n \in {IF p \in AudioStages THEN audio_index ELSE 0},
               t \in {IF p \in AudioStages THEN "Audio" ELSE "Video"} :
                /\ add_filter(f, n, t)
                /\ calls' = Append(calls, [op |-> p, filter |-> f, nr |-> n,
                                           type |-> t])
       ELSE UNCHANGED <<config, graph, calls>>
    /\ pc' = stage_next(p)
    /\ idx' = IF p = "custom_list_a" /\ idx < Len(audio_indexes) THEN idx + 1
              ELSE idx
    /\ UNCHANGED <<aborted, node, threads>>

RunStage == \E p \in VideoStages \cup AudioStages : Stage(p)

\* the encoder branch ends with the merge, or with a split of the video
EncoderOutput ==
    /\ pc = "encoder_output"
    /\ IF config.output_filter # {}
       THEN \E f \in config.output_filter :
                /\ process_output_filters(f)
                /\ calls' = Append(calls, [op |-> "process_output_filters",
                                           filter |-> f, nr |-> 0,
                                           type |-> "Video"])
       ELSE IF config.output_count > 1 /\ ~config.audio_only
       THEN /\ split_filter(0, "Video")
            /\ calls' = Append(calls, [op |-> "split_filter", filter |-> "",
                                       nr |-> 0, type |-> "Video"])
            /\ UNCHANGED aborted
       ELSE UNCHANGED <<config, graph, calls, aborted>>
    /\ pc' = IF aborted' THEN "panic" ELSE "done"
    /\ UNCHANGED <<node, idx, threads>>

\* mutant of AudioTracks: the loop is entered whatever copy_audio says
AudioTracks_despite_copy ==
    /\ pc = "audio_tracks"
    /\ IF Len(audio_indexes) > 0
       THEN pc' = "audio_source" /\ idx' = 1
       ELSE pc' = "output" /\ UNCHANGED idx
    /\ UNCHANGED <<config, graph, calls, aborted, node, threads>>

\* the audio loop is entered unless copy_audio is set (a pinned track with
\* copy_audio is logged as an error)
AudioTracks ==
    /\ pc = "audio_tracks"
    /\ IF ~config.copy_audio /\ Len(audio_indexes) > 0
       THEN pc' = "audio_source" /\ idx' = 1
       ELSE pc' = "output" /\ UNCHANGED idx
    /\ UNCHANGED <<config, graph, calls, aborted, node, threads>>

\* in HLS mode an output filter is merged with the chains
Output ==
    /\ pc = "output"
    /\ IF config.mode = "HLS" /\ config.output_filter # {}
       THEN \E f \in config.output_filter :
                /\ process_output_filters(f)
                /\ calls' = Append(calls, [op |-> "process_output_filters",
                                           filter |-> f, nr |-> 0,
                                           type |-> "Video"])
       ELSE UNCHANGED <<config, graph, calls, aborted>>
    /\ pc' = IF aborted' THEN "panic" ELSE "done"
    /\ UNCHANGED <<node, idx, threads>>

\* Filters::new(config.clone(), 0) in filter_chains
InitChains ==
    /\ config \in PlayoutConfigs
    /\ node \in MediaItems
    /\ hw_context = is_some_and_contains(config.input_param, "-hw")
    /\ audio_chain = ""
    /\ video_chain = ""
    /\ output_chain = << >>
    /\ audio_map = << >>
    /\ video_map = << >>
    /\ audio_out_link = << >>
    /\ video_out_link = << >>
    /\ output_map = << >>
    /\ audio_position = 0
    /\ video_position = 0
    /\ audio_last = -1
    /\ video_last = -1
    /\ calls = << >>
    /\ aborted = FALSE
    /\ pc = "begin"
    /\ idx = 0
    /\ NoThreads

NextChains ==
    Begin \/ Probe \/ RunStage \/ EncoderOutput \/ AudioTracks \/ Output

SpecChains == InitChains /\ [][NextChains]_vars

---------------------------------------------------------------------------
(* The scale stage and the merge applied to any graph state: add_filter    *)
(* calls in any order, then scale() with any probed size, or the merge of  *)
(* an output filter that names the video input twice.                      *)

\* an output filter that reads the video input twice
TwoVideoTemplate == "[0:v]null[o];[0:v]null[p];[0:a:0]anull[q]"

HlsTwoVideoConfig ==
    [ PlainConfig EXCEPT !.mode = "HLS", !.output_filter = {TwoVideoTemplate} ]

StageConfigs == { PlainConfig, CudaScaleConfig, HlsTwoVideoConfig }

\* v_stream.width and v_stream.height: absent, the target, another size
Widths == { {}, {1024}, {1280} }
Heights == { {}, {576}, {720} }

InitStages ==
    /\ config \in StageConfigs
    /\ hw_context = is_some_and_contains(config.input_param, "-hw")
    /\ audio_chain = ""
    /\ video_chain = ""
    /\ output_chain = << >>
    /\ audio_map = << >>
    /\ video_map = << >>
    /\ audio_out_link = << >>
    /\ video_out_link = << >>
    /\ output_map = << >>
    /\ audio_position = 0
    /\ video_position = 0
    /\ audio_last = -1
    /\ video_last = -1
    /\ calls = << >>
    /\ aborted = FALSE
    /\ node = << >>
    /\ pc = "caller"
    /\ idx = 0
    /\ NoThreads

\* scale() called on any graph state, with any probed size
ScaleCall ==
    \E width \in Widths, height \in Heights :
        /\ Ready
        /\ IF scale(width, height).runs
           THEN \E f \in {scale(width, height).filter} : add_filter(f, 0, "Video")
           ELSE UNCHANGED <<config, graph>>
        /\ calls' = Append(calls, [op |-> "scale",
                                   filter |-> scale(width, height).filter,
                                   nr |-> 0, type |-> "Video"])
        /\ UNCHANGED <<aborted, run, threads>>

NextStages == AddFilter \/ ScaleCall \/ ProcessOutputFilters

SpecStages == InitStages /\ [][NextStages]_vars

---------------------------------------------------------------------------
(* add_filter on its own, with filters of every kind the same-track        *)
(* continuation tells apart, with and without a hardware decoder, and with *)
(* track numbers visited out of order.                                     *)

\* input_param without a hardware decoder, with VAAPI and with CUDA
AppendConfigs == { DefaultConfig, HlsConfig, CudaConfig }

\* (filter, track_nr, filter_type) handed to add_filter: on video track 0 a
\* software and a hardware filter, the relabel, a source generator, a
\* software and a hardware overlay, an overlay that is a link expression
\* and a filter that begins a new chain; on video track 2 and on the audio
\* tracks what a first visit and a return need
AppendArgs ==
    { <<f, 0, "Video">> : f \in { "null", "scale_cuda", "null[v];", "movie=logo",
                                  "overlay=0:0", "overlay_cuda=0:0",
                                  "[v][l]overlay=0:0", ";[v]null", "split[" } }
    \cup { <<f, 2, "Video">> : f \in { "null", "scale_cuda", "movie=logo" } }
    \cup { <<"anull", 0, "Audio">>, <<"anull", 2, "Audio">>,
           <<"aevalsrc=0", 2, "Audio">> }

InitAppend ==
    /\ config \in AppendConfigs
    /\ hw_context = is_some_and_contains(config.input_param, "-hw")
    /\ audio_chain = ""
    /\ video_chain = ""
    /\ output_chain = << >>
    /\ audio_map = << >>
    /\ video_map = << >>
    /\ audio_out_link = << >>
    /\ video_out_link = << >>
    /\ output_map = << >>
    /\ audio_position = 0
    /\ video_position = 0
    /\ audio_last = -1
    /\ video_last = -1
    /\ calls = << >>
    /\ aborted = FALSE
    /\ node = << >>
    /\ pc = "caller"
    /\ idx = 0
    /\ NoThreads

AppendFilter ==
    \E args \in AppendArgs :
        /\ Ready
        /\ add_filter(args[1], args[2], args[3])
        /\ calls' = Append(calls, [op |-> "add_filter", filter |-> args[1],
                                   nr |-> args[2], type |-> args[3]])
        /\ UNCHANGED <<aborted, run, threads>>

NextAppend == AppendFilter

SpecAppend == InitAppend /\ [][NextAppend]_vars

---------------------------------------------------------------------------
(* cmd() and map() called between add_filter calls, as check_media does.   *)
(* Both work on clones of the chains and of the map list; what they        *)
(* return is recorded in the history.                                      *)

\* mutant of CmdCall: the closing labels are pushed onto the chains
CmdCall_storing_labels ==
    /\ Ready
    /\ calls' = Append(calls, [op |-> "cmd", filter |-> "", nr |-> 0,
                               type |-> "Video", result |-> cmd])
    /\ video_chain' = cmd_v_chain
    /\ audio_chain' = cmd_a_chain
    /\ UNCHANGED <<config, hw_context, output_chain, audio_map, video_map,
                   audio_out_link, video_out_link, output_map, audio_position,
                   video_position, audio_last, video_last, aborted, run, threads>>

CmdCall ==
    /\ Ready
    /\ calls' = Append(calls, [op |-> "cmd", filter |-> "", nr |-> 0,
                               type |-> "Video", result |-> cmd])
    /\ UNCHANGED <<config, graph, aborted, run, threads>>

MapCall ==
    /\ Ready
    /\ calls' = Append(calls, [op |-> "map", filter |-> "", nr |-> 0,
                               type |-> "Video", result |-> map])
    /\ UNCHANGED <<config, graph, aborted, run, threads>>

NextFinalize == AppendFilter \/ CmdCall \/ MapCall

SpecFinalize == InitAppend /\ [][NextFinalize]_vars

---------------------------------------------------------------------------
(* validate_playlist, statement by statement, beside a thread that sets    *)
(* the termination flag at any moment.  Times are in milliseconds.  The    *)
(* probe of a source is what ffprobe finds for the file: nothing for a     *)
(* file that does not exist, its duration otherwise.  check_media spawns   *)
(* ffmpeg and may fail; its result is an input.                            *)

\* Media::add_probe: the probe of the file, None when it cannot be read
file_probe(source) ==
    IF source = "a.mp4" THEN { [ duration |-> 10000 ] }
    ELSE IF source = "b.mp4" THEN { [ duration |-> 20000 ] }
    ELSE {}

\* playlist items: a file whose playlist duration is right, one whose
\* playlist duration is 5 s too long, and one that does not exist
ItemA == [ source |-> "a.mp4", seek |-> 0, out |-> 10000, duration |-> 10000,
           probe |-> {} ]
ItemB == [ source |-> "b.mp4", seek |-> 0, out |-> 25000, duration |-> 25000,
           probe |-> {} ]
ItemGone == [ source |-> "gone.mp4", seek |-> 0, out |-> 5000, duration |-> 5000,
              probe |-> {} ]

Playlists == { << ItemA, ItemB, ItemGone >>, << ItemGone, ItemA, ItemB >>,
               << ItemB, ItemA, ItemB >> }

\* the fields of PlayoutConfig that validate_playlist reads
ValidateConfigs ==
    [ validate : BOOLEAN, infinit : BOOLEAN, add_text : BOOLEAN,
      text_from_filename : {FALSE}, length_sec : {40000}, start_sec : {0} ]

\* one more step of validate_playlist in the history
Logged(op) == v_log' = Append(v_log, [op |-> op, index |-> index])

InitValidate ==
    /\ config \in ValidateConfigs
    /\ hw_context = FALSE
    /\ audio_chain = ""
    /\ video_chain = ""
    /\ output_chain = << >>
    /\ audio_map = << >>
    /\ video_map = << >>
    /\ audio_out_link = << >>
    /\ video_out_link = << >>
    /\ output_map = << >>
    /\ audio_position = 0
    /\ video_position = 0
    /\ audio_last = -1
    /\ video_last = -1
    /\ calls = << >>
    /\ aborted = FALSE
    /\ node = << >>
    /\ pc = "caller"
    /\ idx = 0
    /\ is_terminated = FALSE
    /\ program \in Playlists
    /\ current_list = program
    /\ begin = 0
    /\ index = 0
    /\ v_pc = "start"
    /\ v_log = << >>
    /\ NoMail

\* what the validation leaves alone: the graph state of the caller and the
\* mail queue
no_graph == <<graph, calls, aborted, run, mailing>>

\* another thread stores true into the flag
Terminate ==
    /\ ~is_terminated
    /\ is_terminated' = TRUE
    /\ v_log' = Append(v_log, [op |-> "terminate", index |-> index])
    /\ UNCHANGED <<config, no_graph, program, current_list, begin, index, v_pc>>

\* the statements before the loop: the zmq text overlay is turned off and
\* begin is set to the start of the playlist
ValidateStart ==
    /\ v_pc = "start"
    /\ config' = [config EXCEPT !.add_text =
                      IF config.add_text /\ ~config.text_from_filename
                      THEN FALSE ELSE @]
    /\ begin' = config.start_sec
    /\ v_pc' = "loop"
    /\ Logged("start")
    /\ UNCHANGED <<no_graph, is_terminated, program, current_list, index>>

\* mutant of ValidateLoop: the flag is not looked at
ValidateLoop_unchecked ==
    /\ v_pc = "loop"
    /\ IF index >= Len(program)
       THEN v_pc' = "length" /\ UNCHANGED v_log
       ELSE v_pc' = "add_probe" /\ Logged("next")
    /\ UNCHANGED <<config, no_graph, is_terminated, program, current_list, begin,
                   index>>

\* the head of the loop: the next item, the return on the flag, or the end
\* of the program
ValidateLoop ==
    /\ v_pc = "loop"
    /\ IF index >= Len(program)
       THEN v_pc' = "length" /\ UNCHANGED v_log
       ELSE IF is_terminated
            THEN v_pc' = "returned" /\ Logged("return")
            ELSE v_pc' = "add_probe" /\ Logged("next")
    /\ UNCHANGED <<config, no_graph, is_terminated, program, current_list, begin,
                   index>>

\* item.add_probe(..), and the error logged when there is no probe
AddProbe ==
    /\ v_pc = "add_probe"
    /\ program' = [program EXCEPT ![index + 1].probe =
                                       file_probe(program[index + 1].source)]
    /\ IF file_probe(program[index + 1].source) # {}
       THEN v_pc' = "check_media" /\ Logged("add_probe")
       ELSE v_pc' = "advance" /\ Logged("no_probe")
    /\ UNCHANGED <<config, no_graph, is_terminated, current_list, begin, index>>

\* check_media(item.clone(), ..) and the branch on its result
CheckMedia ==
    /\ v_pc = "check_media"
    /\ \E ok \in BOOLEAN :
           IF ~ok THEN v_pc' = "advance" /\ Logged("check_failed")
           ELSE IF config.validate THEN v_pc' = "advance" /\ Logged("seems_fine")
           ELSE v_pc' = "update" /\ Logged("check_media")
    /\ UNCHANGED <<config, no_graph, is_terminated, program, current_list, begin,
                   index>>

\* under the lock of the current list: every entry of the source takes the
\* probe, and the probed duration when it differs from the playlist value
UpdateList ==
    /\ v_pc = "update"
    /\ LET item == program[index + 1]
           update(o) ==
               IF o.source = item.source
               THEN [o EXCEPT !.probe = item.probe,
                              !.duration =
                                  LET dur == (CHOOSE f \in item.probe : TRUE).duration
                                  IN  IF ~is_close(@, dur, 1200) THEN dur ELSE @]
               ELSE o
       IN  current_list' = [k \in 1..Len(current_list) |-> update(current_list[k])]
    /\ v_pc' = "advance"
    /\ Logged("update")
    /\ UNCHANGED <<config, no_graph, is_terminated, program, begin, index>>

\* begin += item.out - item.seek, and the next round
Advance ==
    /\ v_pc = "advance"
    /\ begin' = begin + program[index + 1].out - program[index + 1].seek
    /\ index' = index + 1
    /\ v_pc' = "loop"
    /\ Logged("advance")
    /\ UNCHANGED <<config, no_graph, is_terminated, program, current_list>>

\* the check of the playlist length after the loop
LengthCheck ==
    /\ v_pc = "length"
    /\ IF ~config.infinit /\ config.length_sec + config.start_sec > begin + 1200
       THEN Logged("not_long_enough")
       ELSE Logged("length_fine")
    /\ v_pc' = "done"
    /\ UNCHANGED <<config, no_graph, is_terminated, program, current_list, begin,
                   index>>

NextValidate ==
    \/ Terminate \/ ValidateStart \/ ValidateLoop \/ AddProbe \/ CheckMedia
    \/ UpdateList \/ Advance \/ LengthCheck

SpecValidate == InitValidate /\ [][NextValidate]_vars

---------------------------------------------------------------------------
(* The mail logger: mail_queue runs on its own thread and sends what      *)
(* LogMailer::log has queued; send_mail reports its own failures with     *)
(* error!, which reaches LogMailer::log on the thread of mail_queue.      *)
(* Both mutexes are std::sync::Mutex: locking one on the thread that      *)
(* holds it never returns (it blocks for ever or panics), and a panic of  *)
(* the holder poisons the mutex, so that a later lock().unwrap() panics.  *)

\* the longest queue a logging thread still adds to
MaxMessages == 2

MailConfigs ==
    [recipient : {"ops@example.org"}, mail_level : {"error", "warning", "info"}]

\* log::Level as an ordinal: Error < Warn < Info
LevelRank(level) ==
    CASE level = "Error" -> 1
      [] level = "Warn" -> 2
      [] OTHER -> 3

\* init_logging: the filter of the mail logger
MailFilter(c) ==
    CASE c.mail_level = "info" -> LevelRank("Info")
      [] c.mail_level = "warning" -> LevelRank("Warn")
      [] OTHER -> LevelRank("Error")

\* LogMailer::enabled
enabled(level) == LevelRank(level) <= MailFilter(config)

\* what the other threads of the program log
WorkerRecords ==
    { [level |-> "Error", text |-> "Decoder error"],
      [level |-> "Warn", text |-> "Skip clip"],
      [level |-> "Error", text |-> "lettre: connection closed"] }

\* what send_mail logs: the send error with the text of the error, or the
\* failure to build the message
MailErrors ==
    { "Could not send mail: Connection refused",
      "Could not send mail: lettre::transport::smtp::Error",
      "Mail Message failed!" }

\* format!("{time_stamp} [{level: >5}] {rec}"), the time stamp left out
full_line(r) ==
    "[" \o (IF r.level = "Error" THEN "ERROR" ELSE " WARN") \o "] " \o r.text

\* where a thread continues when log returns
AfterLog(t) == IF t = "queue" THEN "clear" ELSE "idle"

\* a panic unwinds the thread: its guards are dropped and poison their mutex
Panicked(t) ==
    /\ thread_pc' = [thread_pc EXCEPT ![t] = "panicked"]
    /\ poisoned' = poisoned \cup {m \in DOMAIN locks : locks[m] = t}
    /\ locks' = [m \in DOMAIN locks |-> IF locks[m] = t THEN "" ELSE locks[m]]

InitMail ==
    /\ config \in MailConfigs
    /\ hw_context = FALSE
    /\ audio_chain = ""
    /\ video_chain = ""
    /\ output_chain = << >>
    /\ audio_map = << >>
    /\ video_map = << >>
    /\ audio_out_link = << >>
    /\ video_out_link = << >>
    /\ output_map = << >>
    /\ audio_position = 0
    /\ video_position = 0
    /\ audio_last = -1
    /\ video_last = -1
    /\ calls = << >>
    /\ aborted = FALSE
    /\ node = << >>
    /\ pc = "caller"
    /\ idx = 0
    /\ is_terminated = FALSE
    /\ NoValidation
    /\ messages = << >>
    /\ last_messages = << "" >>
    /\ locks = [m \in {"messages", "last_messages"} |-> ""]
    /\ poisoned = {}
    /\ thread_pc = [t \in {"queue", "worker"} |->
                        IF t = "queue" THEN "while" ELSE "idle"]
    /\ record = [t \in {"queue", "worker"} |-> [level |-> "Error", text |-> ""]]

\* what the mail threads leave alone
no_mail == <<config, graph, calls, aborted, run, is_terminated, validation>>

\* while !proc_ctl.is_terminated.load(..)
QueueWhile ==
    /\ thread_pc["queue"] = "while"
    /\ thread_pc' = [thread_pc EXCEPT !["queue"] =
                         IF is_terminated THEN "stopped" ELSE "lock"]
    /\ UNCHANGED <<no_mail, messages, last_messages, locks, poisoned, record>>

\* let mut msg = messages.lock().unwrap(); if msg.len() > 0
QueueLock ==
    /\ thread_pc["queue"] = "lock"
    /\ locks["messages"] = ""
    /\ IF "messages" \in poisoned
       THEN Panicked("queue")
       ELSE /\ locks' = [locks EXCEPT !["messages"] = "queue"]
            /\ thread_pc' = [thread_pc EXCEPT !["queue"] =
                                 IF Len(messages) > 0 THEN "send_mail" ELSE "drop"]
            /\ UNCHANGED poisoned
    /\ UNCHANGED <<no_mail, messages, last_messages, record>>

\* send_mail, called with the lock held: the mail is sent, or the failure is
\* reported with error!
send_mail ==
    /\ thread_pc["queue"] = "send_mail"
    /\ \/ /\ thread_pc' = [thread_pc EXCEPT !["queue"] = "clear"]
          /\ UNCHANGED record
       \/ \E e \in MailErrors :
            /\ record' = [record EXCEPT !["queue"] = [level |-> "Error", text |-> e]]
            /\ thread_pc' = [thread_pc EXCEPT !["queue"] = "log"]
    /\ UNCHANGED <<no_mail, messages, last_messages, locks, poisoned>>

\* msg.clear() when there were messages; drop(msg)
QueueDrop ==
    /\ thread_pc["queue"] \in {"clear", "drop"}
    /\ messages' = IF thread_pc["queue"] = "clear" THEN << >> ELSE messages
    /\ locks' = [locks EXCEPT !["messages"] = ""]
    /\ thread_pc' = [thread_pc EXCEPT !["queue"] = "sleep"]
    /\ UNCHANGED <<no_mail, last_messages, poisoned, record>>

\* sleep(Duration::from_secs(interval))
QueueSleep ==
    /\ thread_pc["queue"] = "sleep"
    /\ thread_pc' = [thread_pc EXCEPT !["queue"] = "while"]
    /\ UNCHANGED <<no_mail, messages, last_messages, locks, poisoned, record>>

\* another thread of the program logs a record
WorkerLog ==
    /\ thread_pc["worker"] = "idle"
    /\ Len(messages) < MaxMessages
    /\ \E r \in WorkerRecords : record' = [record EXCEPT !["worker"] = r]
    /\ thread_pc' = [thread_pc EXCEPT !["worker"] = "log"]
    /\ UNCHANGED <<no_mail, messages, last_messages, locks, poisoned>>

\* LogMailer::log: if self.enabled(..) { let mut last_msgs =
\* self.last_messages.lock().unwrap();
LogLock(t) ==
    /\ thread_pc[t] = "log"
    /\ IF ~enabled(record[t].level)
       THEN /\ thread_pc' = [thread_pc EXCEPT ![t] = AfterLog(t)]
            /\ UNCHANGED <<locks, poisoned>>
       ELSE /\ locks["last_messages"] = ""
            /\ IF "last_messages" \in poisoned
               THEN Panicked(t)
               ELSE /\ locks' = [locks EXCEPT !["last_messages"] = t]
                    /\ thread_pc' = [thread_pc EXCEPT ![t] = "log_test"]
                    /\ UNCHANGED poisoned
    /\ UNCHANGED <<no_mail, messages, last_messages, record>>

\* if !last_msgs.contains(&rec) && !rec.contains("lettre") { clear when
\* longer than 2; push(rec) }, else the guard is dropped and log returns
LogTest(t) ==
    /\ thread_pc[t] = "log_test"
    /\ LET rec == record[t].text
       IN  IF /\ \A i \in DOMAIN last_messages : last_messages[i] # rec
              /\ ~contains(rec, "lettre")
           THEN /\ last_messages' =
                       Append(IF Len(last_messages) > 2 THEN << >>
                              ELSE last_messages, rec)
                /\ thread_pc' = [thread_pc EXCEPT ![t] = "log_push"]
                /\ UNCHANGED locks
           ELSE /\ locks' = [locks EXCEPT !["last_messages"] = ""]
                /\ thread_pc' = [thread_pc EXCEPT ![t] = AfterLog(t)]
                /\ UNCHANGED last_messages
    /\ UNCHANGED <<no_mail, messages, poisoned, record>>

\* self.messages.lock().unwrap().push(full_line); then last_msgs is dropped.
\* On the thread that holds the lock the call never returns.
LogPush(t) ==
    /\ thread_pc[t] = "log_push"
    /\ \/ /\ locks["messages"] = t
          /\ \/ /\ thread_pc' = [thread_pc EXCEPT ![t] = "deadlocked"]
                /\ UNCHANGED <<locks, poisoned>>
             \/ Panicked(t)
          /\ UNCHANGED messages
       \/ /\ locks["messages"] = ""
          /\ "messages" \in poisoned
          /\ Panicked(t)
          /\ UNCHANGED messages
       \/ /\ locks["messages"] = ""
          /\ "messages" \notin poisoned
          /\ messages' = Append(messages, full_line(record[t]))
          /\ locks' = [locks EXCEPT !["last_messages"] = ""]
          /\ thread_pc' = [thread_pc EXCEPT ![t] = AfterLog(t)]
          /\ UNCHANGED poisoned
    /\ UNCHANGED <<no_mail, last_messages, record>>

Log == \E t \in {"queue", "worker"} : LogLock(t) \/ LogTest(t) \/ LogPush(t)

NextMail ==
    \/ Terminate \/ QueueWhile \/ QueueLock \/ send_mail \/ QueueDrop
    \/ QueueSleep \/ WorkerLog \/ Log

SpecMail == InitMail /\ [][NextMail]_vars

---------------------------------------------------------------------------
(* check_media: the graph of a playlist item is built by filter_chains     *)
(* with the output mode set to Null, seek 0 and out = duration; then the   *)
(* volume filters of the audio chain are replaced by anull and             *)
(* silencedetect is appended on audio track 0.                             *)

Digits == {"0", "1", "2", "3", "4", "5", "6", "7", "8", "9", "."}

\* Regex volume=[0-9.]+ replace_all(.., "anull"), from index i on
RECURSIVE re_clean_from(_, _)
re_clean_from(s, i) ==
    LET hits == {p \in i..(Len(s) - 7) :
                    SubSeq(s, p, p + 6) = "volume=" /\ SubSeq(s, p + 7, p + 7) \in Digits}
    IN  IF hits = {} THEN SubSeq(s, i, Len(s))
        ELSE LET j == CHOOSE p \in hits : \A q \in hits : p <= q
                 e == CHOOSE k \in (j + 7)..Len(s) :
                          /\ \A m \in (j + 7)..k : SubSeq(s, m, m) \in Digits
                          /\ k = Len(s) \/ SubSeq(s, k + 1, k + 1) \notin Digits
             IN  SubSeq(s, i, j - 1) \o "anull" \o re_clean_from(s, e + 1)

re_clean_replace_all(s) == re_clean_from(s, 1)

\* config.out.mode = Null
CheckConfigs == { [c EXCEPT !.mode = "Null"] : c \in PlayoutConfigs }

\* the items of a playlist, with node.seek = 0.0 and node.out = node.duration
CheckItems ==
    { [n EXCEPT !.seek = 0, !.out = n.duration] :
          n \in {m \in MediaItems : m.unit = "Decoder"} }

InitCheck ==
    /\ config \in CheckConfigs
    /\ node \in CheckItems
    /\ hw_context = is_some_and_contains(config.input_param, "-hw")
    /\ audio_chain = ""
    /\ video_chain = ""
    /\ output_chain = << >>
    /\ audio_map = << >>
    /\ video_map = << >>
    /\ audio_out_link = << >>
    /\ video_out_link = << >>
    /\ output_map = << >>
    /\ audio_position = 0
    /\ video_position = 0
    /\ audio_last = -1
    /\ video_last = -1
    /\ calls = << >>
    /\ aborted = FALSE
    /\ pc = "begin"
    /\ idx = 0
    /\ NoThreads

\* the statements of check_media on the graph that filter_chains returned
check_media ==
    /\ pc = "done"
    /\ LET cleaned == IF Len(cmd) > 1 THEN re_clean_replace_all(audio_chain)
                      ELSE audio_chain
       IN  /\ audio_chain' = chain_after(cleaned, audio_position, audio_last,
                                         "silencedetect=n=-30dB", 0, "Audio")
           /\ audio_map' = map_after(audio_map, audio_last, 0, "Audio")
           /\ output_map' = output_map_after(audio_last, 0, "Audio")
           /\ audio_last' = 0
    /\ calls' = Append(calls, [op |-> "silencedetect",
                               filter |-> "silencedetect=n=-30dB",
                               nr |-> 0, type |-> "Audio"])
    /\ pc' = "checked"
    /\ UNCHANGED <<config, hw_context, video_chain, output_chain, video_map,
                   audio_out_link, video_out_link, audio_position, video_position,
                   video_last, aborted, node, idx, threads>>

NextCheck == Begin \/ Probe \/ RunStage \/ AudioTracks \/ Output \/ check_media

SpecCheck == InitCheck /\ [][NextCheck]_vars

---------------------------------------------------------------------------
(* Vocabulary of the properties.                                           *)

ChainOf(t) == IF t = "Audio" THEN audio_chain ELSE video_chain
LabelsOf(t) == IF t = "Audio" THEN audio_map ELSE video_map
LastOf(t) == IF t = "Audio" THEN audio_last ELSE video_last

\* the text [aout<n>] or [vout<n>]
OutLabelText(t, n) ==
    (IF t = "Audio" THEN "[aout" ELSE "[vout") \o ToString(n) \o "]"

\* a recorded operation that ran add_filter (split_filter does when the
\* output count is above 1)
RanAddFilter(rec) ==
    \/ rec.op = "add_filter"
    \/ rec.op = "split_filter" /\ config.output_count > 1

\* the step applies one operation; Latest is its record
Stepped == Len(calls') = Len(calls) + 1
Latest == calls'[Len(calls')]

\* some add_filter has run for stream type t (on track nr)
Appended(t) == \E i \in 1..Len(calls) : RanAddFilter(calls[i]) /\ calls[i].type = t
AppendedTrack(t, nr) ==
    \E i \in 1..Len(calls) :
        RanAddFilter(calls[i]) /\ calls[i].type = t /\ calls[i].nr = nr

\* number of positions of v that hold x
Occurrences(v, x) == Cardinality({i \in 1..Len(v) : v[i] = x})

\* number of (-map, x) pairs in v
MapPairs(v, x) ==
    Cardinality({i \in 1..(Len(v) - 1) : v[i] = "-map" /\ v[i + 1] = x})

\* s without its prefix of length n
Drop(s, n) == SubSeq(s, n + 1, Len(s))

\* the text a step appended to the chain of type t
AddedText(t) == Drop(ChainOf(t)', Len(ChainOf(t)))

---------------------------------------------------------------------------
(* C1: an add_filter call whose track number differs from the last-track   *)
(* marker of its stream type adds exactly one label [<type>out<track>] to  *)
(* that type's label list and exactly one (-map, label) pair to the        *)
(* accumulated map list; a call whose track number equals the marker adds  *)
(* nothing to either list.                                                 *)
C1_Step ==
    \A t \in FilterType, nr \in Tracks :
        (Stepped /\ RanAddFilter(Latest) /\ Latest.type = t /\ Latest.nr = nr) =>
            IF nr # LastOf(t)
            THEN /\ LabelsOf(t)' = Append(LabelsOf(t), OutLabelText(t, nr))
                 /\ output_map' = output_map \o << "-map", OutLabelText(t, nr) >>
            ELSE /\ LabelsOf(t)' = LabelsOf(t)
                 /\ output_map' = output_map

C1_RegistersOncePerTransition == [][C1_Step]_vars

\* a transition, a same-track call and another transition have happened
C1_Witness ==
    /\ Len(calls) = 3
    /\ \A i \in 1..3 : calls[i].op = "add_filter" /\ calls[i].type = "Audio"
    /\ calls[1].nr = calls[2].nr
    /\ calls[3].nr # calls[2].nr
    /\ Len(audio_map) = 2
    /\ Len(output_map) = 4

(* C2: after any sequence of add_filter calls, every (stream type, track)  *)
(* that received a filter occurs exactly once in its type's label list and *)
(* exactly once as a -map pair in the accumulated map list.                *)
C2_OneLabelPerTrack ==
    \A t \in FilterType, nr \in Tracks :
        AppendedTrack(t, nr) =>
            /\ Occurrences(LabelsOf(t), OutLabelText(t, nr)) = 1
            /\ MapPairs(output_map, OutLabelText(t, nr)) = 1

(* C3: on a call whose track number differs from the marker, the text      *)
(* added to a non-empty chain begins with [<type>out<previous track>];     *)
(* and the text added to an empty chain begins with no closing label and   *)
(* no ; a call with the marker's track number adds no closing label.       *)
C3_Step ==
    \A t \in FilterType, nr \in Tracks :
        (Stepped /\ RanAddFilter(Latest) /\ Latest.type = t /\ Latest.nr = nr) =>
            /\ SubSeq(ChainOf(t)', 1, Len(ChainOf(t))) = ChainOf(t)
            /\ IF nr # LastOf(t)
               THEN IF ChainOf(t) # ""
                    THEN starts_with(AddedText(t), OutLabelText(t, LastOf(t)) \o ";")
                    ELSE /\ ~starts_with(AddedText(t), ";")
                         /\ \A n \in Tracks \cup {-1} :
                                ~starts_with(AddedText(t), OutLabelText(t, n))
               ELSE \A n \in Tracks \cup {-1} :
                        ~contains(AddedText(t), OutLabelText(t, n))

C3_ClosesPreviousTrack == [][C3_Step]_vars

\* a track was closed: the video chain holds [vout0]; followed by a segment
\* for track 1, and the audio chain was opened without a prefix
C3_Witness ==
    /\ Len(calls) = 3
    /\ \A i \in 1..3 : calls[i].op = "add_filter"
    /\ contains(video_chain, "[vout0];[0:v:1]")
    /\ video_last = 1
    /\ audio_last = 0
    /\ starts_with(audio_chain, "[")
    /\ ~contains(audio_chain, "[aout")

\* number of positions 1..n of s that hold the character c
CountUpTo(s, c, n) == Cardinality({i \in 1..n : CharAt(s, i) = c})

\* every ] closes an open [ and no [ is left open
Balanced(s) ==
    /\ \A n \in 1..Len(s) : CountUpTo(s, "]", n) <= CountUpTo(s, "[", n)
    /\ CountUpTo(s, "]", Len(s)) = CountUpTo(s, "[", Len(s))

\* no piece between two ; (or before the first ;) is empty; one ; at the
\* end of the text is let through
NoEmptySegment(s) ==
    LET parts == split_terminator(s, {";"})
    IN  \A k \in 1..Len(parts) : trim(parts[k]) # ""

(* C4: after any sequence of add_filter calls each chain string has        *)
(* balanced [ ] brackets and no empty ;-delimited segment.                 *)
C4_WellFormedChains ==
    \A t \in FilterType : Balanced(ChainOf(t)) /\ NoEmptySegment(ChainOf(t))

(* C5: an add_filter call for Audio leaves the video chain, label list and *)
(* marker unchanged, one for Video leaves the audio chain, label list and  *)
(* marker unchanged; no add_filter call changes the override chain, the    *)
(* split out-link lists, the input positions or the hardware-context flag. *)
C5_Step ==
    (Stepped /\ Latest.op = "add_filter") =>
        /\ Latest.type = "Audio" => UNCHANGED <<video_chain, video_map, video_last>>
        /\ Latest.type = "Video" => UNCHANGED <<audio_chain, audio_map, audio_last>>
        /\ UNCHANGED <<output_chain, audio_out_link, video_out_link,
                       audio_position, video_position, hw_context>>

C5_OneHalfPerCall == [][C5_Step]_vars

\* add_filter ran for Audio and then for Video on a state whose video half
\* and out links were already filled by a split
C5_Witness ==
    /\ Len(calls) = 3
    /\ calls[1].op = "split_filter" /\ calls[1].type = "Video"
    /\ calls[2].op = "add_filter" /\ calls[2].type = "Audio"
    /\ calls[3].op = "add_filter" /\ calls[3].type = "Video"
    /\ Len(video_out_link) = 2
    /\ video_last = calls[3].nr
    /\ audio_last = calls[2].nr

(* C6: cmd() returns no argument when no add_filter call was ever made and *)
(* no override chain is set, and returns -filter_complex with a non-empty  *)
(* graph as soon as a filter was appended to either half.                  *)
C6_CmdEmptyIffUntouched ==
    /\ (~Appended("Audio") /\ ~Appended("Video") /\ output_chain = <<>>)
           => cmd = <<>>
    /\ (Appended("Audio") \/ Appended("Video"))
           => Len(cmd) = 2 /\ cmd[1] = "-filter_complex" /\ cmd[2] # ""

\* a filter was appended, no override is set and cmd() returns a graph
C6_Witness ==
    /\ Appended("Video")
    /\ output_chain = <<>>
    /\ Len(cmd) = 2
    /\ cmd[2] # ""

\* a half as cmd() is to return it: closed with [<type>out<marker>] when it
\* is non-empty and does not end with a label
ClosedHalf(t) ==
    IF ChainOf(t) # "" /\ ~ends_with(ChainOf(t), "]")
    THEN ChainOf(t) \o OutLabelText(t, LastOf(t))
    ELSE ChainOf(t)

(* C7: without an override the graph of cmd() is the video half followed   *)
(* by the audio half, joined by one ; when both are non-empty; a non-empty *)
(* half that does not end with a label is closed with its output label,    *)
(* and an empty half contributes nothing.                                  *)
C7_CmdJoinsHalves ==
    output_chain = <<>> =>
        LET v == ClosedHalf("Video")
            a == ClosedHalf("Audio")
        IN  IF v = "" /\ a = "" THEN cmd = <<>>
            ELSE IF v # "" /\ a # "" THEN cmd = << "-filter_complex", v \o ";" \o a >>
            ELSE cmd = << "-filter_complex", v \o a >>

\* both halves are filled, the video half ends with a label of its own and
\* the audio half does not
C7_Witness ==
    /\ output_chain = <<>>
    /\ video_chain # "" /\ audio_chain # ""
    /\ ends_with(video_chain, "]")
    /\ ~ends_with(audio_chain, "]")
    /\ Len(cmd) = 2

(* C8: once the merge has set the override chain, cmd() returns that       *)
(* override, -filter_complex and the merged text, whatever the chains hold *)
(* and whatever add_filter calls follow.                                   *)
C8_Step ==
    /\ (Stepped /\ Latest.op = "process_output_filters" /\ ~aborted') =>
           /\ cmd' = output_chain'
           /\ Len(cmd') = 2
           /\ cmd'[1] = "-filter_complex"
           /\ ~splices => cmd'[2] = Latest.filter
    /\ (Stepped /\ Latest.op # "process_output_filters" /\ output_chain # <<>>) =>
           /\ cmd = output_chain
           /\ cmd' = cmd

C8_OverrideWins == [][C8_Step]_vars

\* a filter, then the merge, then another filter
C8_Witness ==
    /\ Len(calls) = 3
    /\ calls[1].op = "add_filter"
    /\ calls[2].op = "process_output_filters"
    /\ calls[3].op = "add_filter"
    /\ output_chain # <<>>
    /\ video_chain # ""

(* C9: map() returns the accumulated map pairs, and after them a default   *)
(* video map 0:v if and only if no video filter was ever appended and the  *)
(* configuration is not audio-only.                                        *)
C9_DefaultVideoMap ==
    /\ SubSeq(map, 1, Len(output_map)) = output_map
    /\ vec_contains(map, "0:v") <=> (~Appended("Video") /\ ~config.audio_only)
    /\ MapPairs(map, "0:v") = Occurrences(map, "0:v")
    /\ Occurrences(map, "0:v") <= 1
    /\ ~Appended("Video") <=> video_last = -1

\* audio was appended, video was not, and the default video map is there
C9_Witness ==
    /\ Appended("Audio")
    /\ ~Appended("Video")
    /\ ~config.audio_only
    /\ MapPairs(map, "0:v") = 1

\* the default map of audio track i
DefaultAudioMap(i) == ToString(audio_position) \o ":a:" \o ToString(i)

(* C10: map() holds one default audio map <audio position>:a:<i> for every *)
(* configured audio track i, each exactly once, if and only if no audio    *)
(* filter was ever appended; otherwise it holds none.                      *)
C10_DefaultAudioMaps ==
    \A i \in 0..(config.audio_tracks - 1) :
        LET n == IF Appended("Audio") THEN 0 ELSE 1
        IN  /\ Occurrences(map, DefaultAudioMap(i)) = n
            /\ MapPairs(map, DefaultAudioMap(i)) = n

\* two audio tracks at input position 1, video appended, audio untouched
C10_Witness ==
    /\ config.audio_tracks = 2
    /\ audio_position = 1
    /\ Appended("Video")
    /\ ~Appended("Audio")
    /\ MapPairs(map, "1:a:0") = 1
    /\ MapPairs(map, "1:a:1") = 1

---------------------------------------------------------------------------
(* C11: after the scale stage has run, on any graph state and with any     *)
(* configuration and probed size (scale template set or not, width and     *)
(* height absent, equal to the target or different), the video chain is    *)
(* not empty and video track 0 has its output label [vout0] registered,    *)
(* in the label list and as a -map pair.                                   *)
C11_Step ==
    (Stepped /\ Latest.op = "scale") =>
        /\ video_chain' # ""
        /\ vec_contains(video_map', "[vout0]")
        /\ MapPairs(output_map', "[vout0]") >= 1

C11_ScaleLeavesChain == [][C11_Step]_vars

\* scale ran after a filter on video track 1, once with a size to change
\* and once as the no-op on the track it had opened
C11_Witness ==
    /\ Len(calls) = 3
    /\ calls[1].op = "add_filter" /\ calls[1].type = "Video" /\ calls[1].nr = 1
    /\ calls[2].op = "scale" /\ calls[2].filter = "scale=1024:576"
    /\ calls[3].op = "scale" /\ calls[3].filter = "null"
    /\ ends_with(video_chain, "[vout1];[0:v:0]scale=1024:576,null")
    /\ video_map = << "[vout1]", "[vout0]" >>

\* the latest recorded operation on stream type t that ran add_filter
PrevOf(t) ==
    LET done == {i \in 1..Len(calls) : RanAddFilter(calls[i]) /\ calls[i].type = t}
    IN  calls[CHOOSE i \in done : \A j \in done : j <= i]

(* C12: for the chain and the filter of every add_filter call, hw_upload   *)
(* yields no bridge when last_is_hw holds for the chain and hw_download    *)
(* yields none when it does not; and on a same-track append, a             *)
(* hardware filter appended directly after a hardware filter adds no       *)
(* hwupload, a software filter appended directly after a software filter   *)
(* on a chain that already holds a hwdownload adds no further hwdownload.  *)
C12_Step ==
    /\ \A t \in FilterType :
           (Stepped /\ Latest.op = "add_filter" /\ Latest.type = t)
           => IF last_is_hw(ChainOf(t))
              THEN hw_upload(config, ChainOf(t), Latest.filter) = ""
              ELSE hw_download(ChainOf(t), Latest.filter) = ""
    /\ \A t \in FilterType, nr \in Tracks :
           (/\ Stepped
            /\ Latest.op = "add_filter" /\ Latest.type = t /\ Latest.nr = nr
            /\ Appended(t)
            /\ PrevOf(t).op = "add_filter" /\ PrevOf(t).nr = nr)
           => /\ (is_hw(PrevOf(t).filter) /\ is_hw(Latest.filter))
                     => ~contains(AddedText(t), "hwupload")
              /\ (/\ ~is_hw(PrevOf(t).filter) /\ ~is_hw(Latest.filter)
                  /\ contains(ChainOf(t), "hwdownload"))
                     => ~contains(AddedText(t), "hwdownload")

C12_NoRedundantBridge == [][C12_Step]_vars

\* a hardware filter, then a software filter that brings the download
\* bridge, then a second software filter on the same track
C12_Witness ==
    /\ Len(calls) = 3
    /\ \A i \in 1..3 : calls[i].op = "add_filter" /\ calls[i].type = "Video"
                       /\ calls[i].nr = 0
    /\ calls[1].filter = "scale_cuda"
    /\ calls[2].filter = "null"
    /\ calls[3].filter = "null"
    /\ video_chain = "[0:v:0]scale_cuda,hwdownload,null,null"

\* the labels [<type>out_<nr>_<i>] for i = 0..count-1, from index i on
RECURSIVE SplitLabels(_, _, _, _)
SplitLabels(t, nr, count, i) ==
    IF i >= count THEN ""
    ELSE "[" \o fmt_type(t) \o "out_" \o ToString(nr) \o "_" \o ToString(i) \o "]"
         \o SplitLabels(t, nr, count, i + 1)

(* C13: with an output count N above 1 every split_filter call appends a   *)
(* split filter that declares N outputs and carries exactly the N labels   *)
(* [<type>out_<nr>_<i>], i = 0..N-1, of the track it is applied to; with   *)
(* an output count of at most 1 the call leaves the graph as it is.        *)
C13_Step ==
    \A t \in FilterType, nr \in Tracks :
        (Stepped /\ Latest.op = "split_filter" /\ Latest.type = t /\ Latest.nr = nr)
        => IF config.output_count > 1
           THEN ends_with(AddedText(t),
                          "split=" \o ToString(config.output_count)
                          \o SplitLabels(t, nr, config.output_count, 0))
           ELSE UNCHANGED graph

C13_SplitCarriesNLabels == [][C13_Step]_vars

\* the audio track whose placeholder [0:a:<i>] stands at position p of s
AudioPlaceholderAt(s, p) ==
    {i \in 0..(config.audio_tracks - 1) :
        p + 6 <= Len(s) /\ SubSeq(s, p, p + 6) = "[0:a:" \o ToString(i) \o "]"}

\* index of the last character of the placeholder that stands at p and has
\* a built chain to take its place, 0 if there is none
PlaceholderEnd(s, p) ==
    IF video_chain # "" /\ re_v_match(s, p) > 0 THEN re_v_match(s, p)
    ELSE IF audio_chain # "" /\ AudioPlaceholderAt(s, p) # {} THEN p + 6
    ELSE 0

\* the text that takes the place of the placeholder at p: the video chain,
\* or the track's segment of the audio chain without its closing label,
\* followed by a comma
PlaceholderText(s, p) ==
    IF video_chain # "" /\ re_v_match(s, p) > 0 THEN video_chain \o ","
    ELSE LET i == CHOOSE k \in AudioPlaceholderAt(s, p) : TRUE
         IN  replace(split(audio_chain, {";"})[i + 1],
                     "[aout" \o ToString(i) \o "]", "") \o ","

\* the template s from index from on, with every placeholder replaced
RECURSIVE SpliceAll(_, _)
SpliceAll(s, from) ==
    LET hits == {p \in from..Len(s) : PlaceholderEnd(s, p) > 0}
    IN  IF hits = {} THEN SubSeq(s, from, Len(s))
        ELSE LET p == CHOOSE q \in hits : \A r \in hits : q <= r
             IN  SubSeq(s, from, p - 1) \o PlaceholderText(s, p)
                 \o SpliceAll(s, PlaceholderEnd(s, p) + 1)

(* C14: when the merge splices and completes, the override is the template *)
(* with every video placeholder replaced by the video chain and a comma    *)
(* (when that chain is non-empty) and every [0:a:i] of a configured track  *)
(* replaced by the track's audio chain and a comma (when the audio chain   *)
(* is non-empty), the text between the placeholders kept in order.         *)
C14_Step ==
    \A custom_filter \in config.output_filter :
        (/\ Stepped
         /\ Latest.op = "process_output_filters"
         /\ Latest.filter = custom_filter
         /\ splices
         /\ ~aborted')
        => output_chain' = << "-filter_complex", SpliceAll(custom_filter, 1) >>

C14_MergeReplacesEveryPlaceholder == [][C14_Step]_vars

(* C15: filter_chains, the merge of the output filter included, never      *)
(* aborts: no configuration and item bring it to a panic.                  *)
C15_FilterChainsCompletes == ~aborted /\ pc # "panic"

\* filter_chains has left the audio loop behind
Built == pc \in {"output", "done", "panic"}

\* the selected audio tracks in the order of the loop
Selected ==
    IF config.audio_track_index = -1
    THEN [k \in 1..config.audio_tracks |-> k - 1]
    ELSE << config.audio_track_index >>

\* the segments of s that the selected tracks from the k-th on own: each
\* but the last runs up to the closing label of its track, which the ;
\* between two segments follows
RECURSIVE SegmentsFrom(_, _)
SegmentsFrom(s, k) ==
    IF k >= Len(Selected) THEN << s >>
    ELSE LET close == "[aout" \o ToString(Selected[k]) \o "];"
             hits  == {p \in 1..(Len(s) - Len(close) + 1) :
                          SubSeq(s, p, p + Len(close) - 1) = close}
         IN  IF hits = {} THEN << s >>
             ELSE LET p == CHOOSE q \in hits : \A r \in hits : q <= r
                  IN  << SubSeq(s, 1, p + Len(close) - 2) >>
                      \o SegmentsFrom(SubSeq(s, p + Len(close), Len(s)), k + 1)

AudioSegments == SegmentsFrom(audio_chain, 1)

\* track i has neither a probed audio stream nor a separate audio file
MissingAudio(i) ==
    /\ ~node.audio_is_file
    /\ \A p \in node.probe : i >= Len(p.audio)

Synthetic == contains(node.source, "color=c=")

Pos(s, pat) ==
    LET hits == {p \in 1..(Len(s) - Len(pat) + 1) : SubSeq(s, p, p + Len(pat) - 1) = pat}
    IN  IF hits = {} THEN 0 ELSE CHOOSE p \in hits : \A q \in hits : p <= q

\* pat occurs in s, and x does not occur or occurs before it
Precedes(s, x, pat) == Pos(s, pat) > 0 /\ (Pos(s, x) > 0 => Pos(s, x) < Pos(s, pat))

\* pat occurs in s, and y does not occur or occurs after it
Follows(s, y, pat) == Pos(s, pat) > 0 /\ (Pos(s, y) > 0 => Pos(s, pat) < Pos(s, y))

\* the custom audio filters of the channel and of the item
CustomAudio ==
    { (IF node.unit = "Ingest" THEN config.ingest_custom_filter.audio
       ELSE config.custom_filter.audio),
      node.custom_filter.audio } \ {""}

(* C17: after filter_chains for a non-encoder item with copy_audio off,    *)
(* every selected audio track has its own non-empty segment of the audio   *)
(* chain; the segment holds anull, after the generator or the pad of the   *)
(* track and before its fades, volume and custom filters; and the track    *)
(* has exactly one label [aout<i>] and exactly one -map pair.              *)
C17_AnullPerTrack ==
    (Built /\ node.unit # "Encoder" /\ ~config.copy_audio)
    => /\ Len(AudioSegments) = Len(Selected)
       /\ \A k \in 1..Len(Selected) :
              LET seg == AudioSegments[k]
              IN  /\ seg # ""
                  /\ Pos(seg, "anull") > 0
                  /\ \A x \in {"aevalsrc", "apad"} : Precedes(seg, x, "anull")
                  /\ \A y \in {"afade", "volume="} \cup CustomAudio :
                         Follows(seg, y, "anull")
                  /\ Occurrences(audio_map, OutLabelText("Audio", Selected[k])) = 1
                  /\ MapPairs(output_map, OutLabelText("Audio", Selected[k])) = 1

\* two tracks with volume and a custom filter: the first is padded, the
\* second synthesized, and each holds anull between source and volume
C17_Witness ==
    /\ pc = "done"
    /\ node.unit = "Decoder" /\ ~config.copy_audio
    /\ Len(Selected) = 2
    /\ audio_chain = "[0:a:0]apad=whole_dur=20,anull,volume=0.5,atempo=1.5[aout0];"
                     \o "aevalsrc=0:channel_layout=stereo:duration=20:sample_rate=48000,"
                     \o "anull,volume=0.5,atempo=1.5"
    /\ audio_map = << "[aout0]", "[aout1]" >>

\* the place of a video stage in the order of the claim
Rank(op) ==
    CASE op = "deinterlace"      -> 1
      [] op = "pad"              -> 2
      [] op = "fps"              -> 3
      [] op = "scale"            -> 4
      [] op = "setdar"           -> 5
      [] op = "extend_video"     -> 6
      [] op = "add_text"         -> 7
      [] op = "fade_in_v"        -> 8
      [] op = "fade_out_v"       -> 9
      [] op = "overlay_null"     -> 10
      [] op = "overlay_movie"    -> 11
      [] op = "overlay_fade_in"  -> 12
      [] op = "overlay_fade_out" -> 13
      [] op = "overlay_scale"    -> 14
      [] op = "overlay"          -> 15
      [] op = "custom_proc_v"    -> 16
      [] op = "custom_list_v"    -> 17
      [] OTHER                   -> 0

\* the appends to the video chain, in the order they were made (the merge
\* is recorded as well but appends nothing)
IsVideoCall(rec) == rec.type = "Video" /\ rec.op # "process_output_filters"
VideoCalls == SelectSeq(calls, IsVideoCall)

\* index of the first occurrence of pat in s at or after from, 0 if none
PosFrom(s, pat, from) ==
    LET hits == {p \in from..(Len(s) - Len(pat) + 1) :
                    SubSeq(s, p, p + Len(pat) - 1) = pat}
    IN  IF hits = {} THEN 0 ELSE CHOOSE p \in hits : \A q \in hits : p <= q

\* the filters of recs, from the k-th on, occur in s one after the other
\* from index from on
RECURSIVE OccurInOrder(_, _, _, _)
OccurInOrder(s, recs, k, from) ==
    IF k > Len(recs) THEN TRUE
    ELSE LET p == PosFrom(s, recs[k].filter, from)
         IN  p > 0 /\ OccurInOrder(s, recs, k + 1, p + Len(recs[k].filter))

(* C18: for a non-encoder item that is neither audio-only nor copy-video   *)
(* the video stages append in the order deinterlace, pad, fps, scale,      *)
(* setdar, extend-video, text, fade-in, fade-out, the logo group, channel  *)
(* custom filter, item custom filter, and their filters stand in the video *)
(* chain from left to right in that order.                                 *)
C18_VideoStageOrder ==
    (node.unit # "Encoder" /\ ~config.audio_only /\ ~config.copy_video
     /\ pc \notin {"caller", "begin"})
    => /\ \A i \in 1..Len(VideoCalls) :
              /\ Rank(VideoCalls[i].op) > 0
              /\ i > 1 => Rank(VideoCalls[i - 1].op) < Rank(VideoCalls[i].op)
       /\ OccurInOrder(video_chain, VideoCalls, 1, 1)

\* a 4:3 interlaced item at another frame rate, played from a seek point
\* up to before its end after an ad, with logo and both custom filters
C18_Witness ==
    /\ pc = "done"
    /\ node.unit = "Decoder"
    /\ [i \in 1..Len(VideoCalls) |-> VideoCalls[i].op]
         = << "deinterlace", "pad", "fps", "scale", "setdar", "fade_in_v",
              "fade_out_v", "overlay_null", "overlay_movie", "overlay_fade_in",
              "overlay_scale", "overlay", "custom_proc_v", "custom_list_v" >>
    /\ starts_with(video_chain,
                   "[0:v:0]yadif=0:-1:0,pad='ih*16/9:ih:(ow-iw)/2:(oh-ih)/2',"
                   \o "fps=25,scale=1024:576,setdar=dar=1.778,fade=in:st=0:d=0.5,")
    /\ ends_with(video_chain, "overlay=W-w-12:12:shortest=1,hue=s=0,negate")

(* C19: for a continuous-encoder item filter_chains runs no probe-driven   *)
(* stage.  The audio chain stays empty with its marker at -1; the only     *)
(* appends to the video chain are the text filter, only when audio_only is *)
(* off, and a split, only when no output filter is set and the output      *)
(* count is above 1; with an output filter set the merge stores the        *)
(* override and no split is appended.                                      *)
C19_EncoderItem ==
    (node.unit = "Encoder" /\ pc \notin {"caller", "begin"})
    => /\ audio_chain = "" /\ audio_last = -1 /\ audio_map = << >>
       /\ \A i \in 1..Len(calls) :
              /\ calls[i].op \in {"encoder_text", "split_filter",
                                  "process_output_filters"}
              /\ calls[i].op = "encoder_text" => ~config.audio_only
              /\ calls[i].op = "split_filter"
                     => config.output_filter = {} /\ config.output_count > 1
       /\ pc = "done"
          => /\ LET txt == IF config.add_text /\ ~config.audio_only
                           THEN drawtext_filter_node(config) ELSE ""
                    spl == IF config.output_filter = {}
                              /\ config.output_count > 1 /\ ~config.audio_only
                           THEN "split=" \o ToString(config.output_count)
                                \o SplitLabels("Video", 0, config.output_count, 0)
                           ELSE ""
                IN  video_chain =
                        (IF txt = "" /\ spl = "" THEN "" ELSE "[0:v:0]")
                        \o txt
                        \o (IF txt # "" /\ spl # "" THEN "," ELSE "")
                        \o spl
             /\ config.output_filter # {}
                    => /\ Len(output_chain) = 2
                       /\ output_chain[1] = "-filter_complex"
                       /\ ~contains(video_chain, "split=")
             /\ config.output_filter = {} => output_chain = << >>

\* the encoder item with text and two outputs: the text filter and a split
C19_Witness ==
    /\ pc = "done"
    /\ node.unit = "Encoder"
    /\ config.output_filter = {} /\ config.output_count = 2
    /\ video_chain = "[0:v:0]drawtext=text='title',split=2[vout_0_0][vout_0_1]"
    /\ audio_chain = ""

\* the item has a probed video stream, and the aspect ratio of that stream
\* is not within the tolerance of the target aspect
ProbedVideo == \E p \in node.probe : Len(p.video) > 0
AspectDiffers ==
    ~is_close(calc_aspect(config, v_stream.aspect_ratio), config.aspect, 30)

\* the record of the append of the scale stage
ScaleRecord == calls[CHOOSE i \in 1..Len(calls) : calls[i].op = "scale"]

(* C20: for a non-encoder item with a probed video stream, neither         *)
(* audio-only nor copy-video, the video chain holds a pad filter if and    *)
(* only if it holds a setdar filter, both exactly when the aspect ratio of *)
(* the source is not within 0.03 of the target aspect; then pad stands     *)
(* before the filter of the scale stage and setdar after it.               *)
C20_PadIffSetdar ==
    (/\ Built
     /\ node.unit # "Encoder" /\ ProbedVideo
     /\ ~config.audio_only /\ ~config.copy_video)
    => LET pad_at    == Pos(video_chain, "pad='ih*")
           setdar_at == Pos(video_chain, "setdar=dar=")
           scale_at  == Pos(video_chain, ScaleRecord.filter)
       IN  /\ pad_at > 0 <=> setdar_at > 0
           /\ pad_at > 0 <=> AspectDiffers
           /\ scale_at > 0
           /\ pad_at > 0 => pad_at < scale_at /\ scale_at < setdar_at

\* the 4:3 source under a 16:9 target
C20_Witness ==
    /\ pc = "done"
    /\ node.unit = "Decoder" /\ ProbedVideo
    /\ v_stream.aspect_ratio = { <<4, 3>> } /\ config.aspect = 1778
    /\ contains(video_chain,
                "pad='ih*16/9:ih:(ow-iw)/2:(oh-ih)/2',fps=25,scale=1024:576,setdar=dar=1.778")

\* the step runs the statement p of filter_chains
Runs(p) == pc = p /\ pc' # p

\* the step appends filter to the chain of type t through the stage p, or
\* leaves the whole graph as it is
StageAppends(p, t, filter) ==
    /\ Stepped
    /\ Latest.op = p /\ Latest.type = t /\ Latest.filter = filter
    /\ ends_with(AddedText(t), filter)

(* C21: the fade stage appends the fade-in to the track if and only if the *)
(* seek offset of the item is above 0 or the item is a live-ingest item,   *)
(* for video and for every audio track.                                    *)
C21_Step ==
    /\ Runs("fade_in_v")
       => IF node.seek > 0 \/ node.unit = "Ingest"
          THEN StageAppends("fade_in_v", "Video", "fade=in:st=0:d=0.5")
          ELSE UNCHANGED <<graph, calls>>
    /\ Runs("fade_in_a")
       => IF node.seek > 0 \/ node.unit = "Ingest"
          THEN StageAppends("fade_in_a", "Audio", "afade=in:st=0:d=0.5")
          ELSE UNCHANGED <<graph, calls>>

C21_FadeInIffSeekOrIngest == [][C21_Step]_vars

\* the live-ingest item, seek 0: fade-in on video and on the audio track
C21_Witness ==
    /\ pc = "done"
    /\ node.unit = "Ingest" /\ node.seek = 0
    /\ \E i \in 1..Len(calls) : calls[i].op = "fade_in_v"
    /\ \E i \in 1..Len(calls) : calls[i].op = "fade_in_a"
    /\ contains(video_chain, ",fade=in:st=0:d=0.5")
    /\ contains(audio_chain, "anull,afade=in:st=0:d=0.5")

\* the text of the fade-out: it starts one second before the end of the span
FadeOutText(t) ==
    (IF t = "Audio" THEN "a" ELSE "") \o "fade=out:st="
    \o fmt_f64(node.out - node.seek - 1000) \o ":d=1.0"

(* C22 as stated: the fade stage appends a fade-out starting at            *)
(* out - seek - 1 whenever out - seek is above 1 second, for audio also    *)
(* whenever the separate audio duration differs from the item duration,    *)
(* and in no other case.                                                   *)
C22_StepAsStated ==
    /\ Runs("fade_out_v")
       => IF node.out - node.seek > 1000
          THEN StageAppends("fade_out_v", "Video", FadeOutText("Video"))
          ELSE UNCHANGED <<graph, calls>>
    /\ Runs("fade_out_a")
       => IF node.out - node.seek > 1000 \/ node.duration_audio # node.duration
          THEN StageAppends("fade_out_a", "Audio", FadeOutText("Audio"))
          ELSE UNCHANGED <<graph, calls>>

C22_FadeOutBySpan == [][C22_StepAsStated]_vars

(* C22 amended: the fade stage appends a fade-out starting at              *)
(* out - seek - 1 exactly when the item ends before its duration           *)
(* (out # duration) with out - seek above 1 second, or, for audio, when a  *)
(* separate audio duration is set (above 0) and differs from the duration. *)
C22_Step ==
    /\ Runs("fade_out_v")
       => IF node.out # node.duration /\ node.out - node.seek > 1000
          THEN StageAppends("fade_out_v", "Video", FadeOutText("Video"))
          ELSE UNCHANGED <<graph, calls>>
    /\ Runs("fade_out_a")
       => IF \/ node.out # node.duration /\ node.out - node.seek > 1000
             \/ node.duration_audio > 0 /\ node.duration_audio # node.duration
          THEN StageAppends("fade_out_a", "Audio", FadeOutText("Audio"))
          ELSE UNCHANGED <<graph, calls>>

C22_FadeOutWhenCutOrAudioDiffers == [][C22_Step]_vars

\* an item played up to its end whose audio file is shorter: no fade-out
\* on video although the span is 20 s, a fade-out on audio
C22_Witness ==
    /\ pc = "done"
    /\ node.out = node.duration
    /\ node.duration_audio = 12500
    /\ \E i \in 1..Len(calls) :
           calls[i].op = "fade_out_a" /\ calls[i].filter = "afade=out:st=19:d=1.0"
    /\ \A i \in 1..Len(calls) : calls[i].op # "fade_out_v"
    /\ contains(audio_chain, "anull,afade=out:st=19:d=1.0")

\* the operations of the logo group among the appends to the video chain
IsLogoCall(rec) == IsVideoCall(rec) /\ Rank(rec.op) >= 10 /\ Rank(rec.op) <= 15
LogoOps ==
    LET recs == SelectSeq(calls, IsLogoCall)
    IN  [i \in 1..Len(recs) |-> recs[i].op]

\* what the logo group is to append when it triggers: the operations, and
\* the text after the movie source up to the overlay
LogoOpsExpected ==
    << "overlay_null", "overlay_movie" >>
    \o (IF node.last_ad THEN << "overlay_fade_in" >> ELSE << >>)
    \o (IF node.next_ad THEN << "overlay_fade_out" >> ELSE << >>)
    \o (IF config.logo_scale # "" THEN << "overlay_scale" >> ELSE << >>)
    \o << "overlay" >>

LogoTextExpected ==
    ":loop=0,setpts=N/(FRAME_RATE*TB),format=rgba,colorchannelmixer=aa="
    \o fmt_f64(config.logo_opacity)
    \o (IF node.last_ad THEN ",fade=in:st=0:d=1.0:alpha=1" ELSE "")
    \o (IF node.next_ad
        THEN ",fade=out:st=" \o fmt_f64(node.out - node.seek - 1000) \o ":d=1.0:alpha=1"
        ELSE "")
    \o (IF config.logo_scale # "" THEN ",scale=" \o config.logo_scale ELSE "")
    \o "[l];[v][l]overlay=" \o config.logo_position \o ":shortest=1"

(* C23: when the logo stage triggers (logo enabled, logo file exists, the  *)
(* category is not advertisement) the video chain gets, in this order, the *)
(* relabel null[v]; the movie source, a logo fade-in iff last_ad, a logo   *)
(* fade-out iff next_ad, a logo scale iff one is configured, and the       *)
(* overlay prefixed [l];[v][l]; when it does not trigger, none of them.    *)
C23_LogoGroup ==
    (/\ Built
     /\ node.unit # "Encoder" /\ ~config.audio_only /\ ~config.copy_video)
    => IF config.add_logo /\ config.logo_is_file /\ node.category # "advertisement"
       THEN /\ LogoOps = LogoOpsExpected
            /\ Follows(video_chain, "movie=", ",null[v];")
            /\ Pos(video_chain, ",null[v];") + 9 = Pos(video_chain, "movie=")
            /\ contains(video_chain, LogoTextExpected)
       ELSE /\ LogoOps = << >>
            /\ \A x \in {"null[v];", "movie=", "[l];[v][l]", "overlay=", "alpha=1"} :
                   ~contains(video_chain, x)

\* after an ad and before the next, with a logo scale: the whole group
C23_Witness ==
    /\ pc = "done"
    /\ node.last_ad /\ node.next_ad /\ config.logo_scale = "100:-1"
    /\ LogoOps = << "overlay_null", "overlay_movie", "overlay_fade_in",
                    "overlay_fade_out", "overlay_scale", "overlay" >>
    /\ contains(video_chain,
                ",null[v];movie=c\\\\:/logo.png:loop=0,setpts=N/(FRAME_RATE*TB),"
                \o "format=rgba,colorchannelmixer=aa=0.7,fade=in:st=0:d=1.0:alpha=1,"
                \o "fade=out:st=19:d=1.0:alpha=1,scale=100:-1"
                \o "[l];[v][l]overlay=W-w-12:12:shortest=1")

\* the bridge filters among the filters of the text a: downloads, and
\* uploads (which may carry the label [l] of the overlay case)
BridgeTokens(a) == split(a, {",", ";"})
Downloads(a) ==
    LET toks == BridgeTokens(a)
    IN  Cardinality({i \in 1..Len(toks) : toks[i] = "hwdownload"})
Uploads(a) ==
    LET toks == BridgeTokens(a)
    IN  Cardinality({i \in 1..Len(toks) : starts_with(toks[i], "hwupload")})

\* the step is an add_filter call on the track of the previous add_filter
\* call of the same stream type
SameTrackAppend(t) ==
    /\ Stepped
    /\ Latest.op = "add_filter" /\ Latest.type = t
    /\ Appended(t)
    /\ PrevOf(t).op = "add_filter" /\ PrevOf(t).nr = Latest.nr

(* C24: in a sequence of same-track appends to the video chain, a software *)
(* filter appended after a hardware filter comes with exactly one download *)
(* bridge and no upload bridge, a hardware filter appended after a         *)
(* software filter with exactly one upload bridge and no download bridge.  *)
C24_Step ==
    SameTrackAppend("Video")
    => \E added \in {AddedText("Video")} :
           /\ (is_hw(PrevOf("Video").filter) /\ ~is_hw(Latest.filter))
                  => Downloads(added) = 1 /\ Uploads(added) = 0
           /\ (~is_hw(PrevOf("Video").filter) /\ is_hw(Latest.filter))
                  => Uploads(added) = 1 /\ Downloads(added) = 0

C24_OneBridgePerBoundary == [][C24_Step]_vars

PositionOf(t) == IF t = "Audio" THEN audio_position ELSE video_position

\* the input selector [<position>:<type>:<track>]
InputSelector(t, nr) ==
    "[" \o ToString(PositionOf(t)) \o (IF t = "Audio" THEN ":a:" ELSE ":v:")
        \o ToString(nr) \o "]"

\* the step is an add_filter call on a track other than the last one of its
\* stream type
TrackTransition(t) ==
    /\ Stepped
    /\ Latest.op = "add_filter" /\ Latest.type = t
    /\ Latest.nr # LastOf(t)

\* the text that closes the previous segment on a transition
ClosingText(t) ==
    IF ChainOf(t) = "" THEN "" ELSE OutLabelText(t, LastOf(t)) \o ";"

\* the segment a transition opened: the added text after the closing text
OpenedSegment(t) == Drop(AddedText(t), Len(ClosingText(t)))

SourceGenerator(filter) ==
    starts_with(filter, "aevalsrc") \/ starts_with(filter, "movie")

(* C25: on a track transition the opened segment is the filter alone when  *)
(* the filter starts with aevalsrc or movie; otherwise it is the input     *)
(* selector, then hwdownload,format=nv12, if and only if the hardware      *)
(* context is active, the filter is not hardware-tagged and the stream     *)
(* type is video, then the filter; an audio segment holds no bridge.       *)
C25_Step ==
    \A t \in {"Video", "Audio"} :
        TrackTransition(t)
        => /\ starts_with(AddedText(t), ClosingText(t))
           /\ IF SourceGenerator(Latest.filter)
              THEN OpenedSegment(t) = Latest.filter
              ELSE IF hw_context /\ ~is_hw(Latest.filter) /\ t = "Video"
                   THEN OpenedSegment(t)
                            = InputSelector(t, Latest.nr)
                                  \o "hwdownload,format=nv12," \o Latest.filter
                   ELSE OpenedSegment(t)
                            = InputSelector(t, Latest.nr) \o Latest.filter
           /\ t = "Audio" => ~contains(OpenedSegment(t), "hwdownload")

C25_NewTrackSegment == [][C25_Step]_vars

\* a software video filter opened track 2 after track 0 under hardware
\* decoding, and an audio filter opened an audio track
C25_Witness ==
    /\ hw_context
    /\ Len(calls) >= 3
    /\ \E i \in 1..Len(calls) : calls[i].type = "Audio" /\ calls[i].filter = "anull"
    /\ \E i \in 1..Len(calls) : calls[i] = [op |-> "add_filter", filter |-> "null",
                                            nr |-> 0, type |-> "Video"]
    /\ calls[Len(calls)] = [op |-> "add_filter", filter |-> "null",
                            nr |-> 2, type |-> "Video"]
    /\ ends_with(video_chain, "[vout0];" \o InputSelector("Video", 2)
                                  \o "hwdownload,format=nv12,null")

\* the step is an add_filter call on the last track of its stream type
SameTrack(t) ==
    /\ Stepped
    /\ Latest.op = "add_filter" /\ Latest.type = t
    /\ Latest.nr = LastOf(t)

\* what was added in front of the filter text
AddedPrefix(t) ==
    SubSeq(AddedText(t), 1, Len(AddedText(t)) - Len(Latest.filter))

LinkCase(t) ==
    \/ starts_with(Latest.filter, ";")
    \/ starts_with(Latest.filter, "[")
    \/ starts_with(Latest.filter, "movie")
    \/ ends_with(ChainOf(t), "[")

(* C26: on a same-track append the filter text ends the chain, and what is *)
(* added in front of it tells the case: in the link-expression case (the   *)
(* filter starts with ; or [ or movie, or the chain ends with [) it holds  *)
(* neither , nor [l];[v][l], whatever the filter contains; otherwise, if   *)
(* the filter contains overlay, it ends with [l];[v][l]; otherwise it ends *)
(* with , and holds no [l];[v][l].                                         *)
C26_Step ==
    \A t \in {"Video", "Audio"} :
        SameTrack(t)
        => /\ ends_with(AddedText(t), Latest.filter)
           /\ \E prefix \in {AddedPrefix(t)} :
                  IF LinkCase(t)
                  THEN ~contains(prefix, ",") /\ ~contains(prefix, "[l];[v][l]")
                  ELSE IF contains(Latest.filter, "overlay")
                       THEN ends_with(prefix, "[l];[v][l]")
                       ELSE ends_with(prefix, ",")
                            /\ ~contains(prefix, "[l];[v][l]")

C26_CasePriority == [][C26_Step]_vars

\* an overlay written as a link expression was appended verbatim, and an
\* overlay was appended to a chain ending with [
C26_Witness ==
    /\ Len(calls) = 3
    /\ \A i \in 1..3 : calls[i].type = "Video" /\ calls[i].nr = 0
    /\ calls[1].filter = "null"
    /\ \/ /\ calls[2].filter = "[v][l]overlay=0:0"
          /\ calls[3].filter = "overlay=0:0"
          /\ ends_with(video_chain, "null[v][l]overlay=0:0[l];[v][l]overlay=0:0")
       \/ /\ calls[2].filter = "split["
          /\ calls[3].filter = "overlay=0:0"
          /\ ends_with(video_chain, "null,split[overlay=0:0")

\* the step is a same-track append that takes the overlay branch
OverlayCase(t) ==
    SameTrack(t) /\ ~LinkCase(t) /\ contains(Latest.filter, "overlay")

(* C27: in the overlay case the new chain is the old chain, then , and the *)
(* upload bridge if and only if the hardware context is active and the old *)
(* chain does not end hardware, then [l];[v][l] and the filter; nothing    *)
(* else is added (no hwdownload, no , before the filter), and the label    *)
(* lists and the map list stay as they are.                                *)
C27_Step ==
    \A t \in {"Video", "Audio"} :
        OverlayCase(t)
        => /\ ChainOf(t)' =
                  ChainOf(t)
                      \o (IF hw_context /\ ~last_is_hw(ChainOf(t))
                          THEN "," \o hw_upload_str(config) ELSE "")
                      \o "[l];[v][l]" \o Latest.filter
           /\ ~contains(AddedPrefix(t), "hwdownload")
           /\ ~ends_with(AddedPrefix(t), ",")
           /\ video_map' = video_map /\ audio_map' = audio_map
           /\ output_map' = output_map

C27_OverlayCase == [][C27_Step]_vars

\* under CUDA decoding a hardware overlay followed a software filter (with
\* upload bridge) and a second overlay followed it (without)
C27_Witness ==
    /\ hw_context
    /\ Len(calls) = 3
    /\ \A i \in 1..3 : calls[i].type = "Video" /\ calls[i].nr = 0
    /\ calls[2].filter = "overlay_cuda=0:0" /\ calls[3].filter = "overlay_cuda=0:0"
    /\ ends_with(video_chain,
                 "null,hwupload_cuda[l];[v][l]overlay_cuda=0:0[l];[v][l]overlay_cuda=0:0")
    /\ video_map = <<"[vout0]">>

\* the step is a same-track append that takes the ordinary branch
OrdinaryCase(t) ==
    SameTrack(t) /\ ~LinkCase(t) /\ ~contains(Latest.filter, "overlay")

\* the bridge the ordinary branch needs between chain and filter
NeedsUpload(chain, filter) == ~last_is_hw(chain) /\ is_hw(filter)
NeedsDownload(chain, filter) ==
    /\ last_is_hw(chain) /\ ~is_hw(filter)
    /\ ~starts_with(filter, "[") /\ ~starts_with(filter, "null[")
TrailingUpload(chain, filter) ==
    /\ ~NeedsUpload(chain, filter) /\ ~NeedsDownload(chain, filter)
    /\ hw_context /\ ~last_is_hw(chain) /\ ends_with(filter, ";")

(* C28: in the ordinary case the new chain is the old chain, then at most  *)
(* one bridge, then , and the filter: , and the upload bridge if and only  *)
(* if the chain does not end hardware and the filter is hardware-tagged,   *)
(* ,hwdownload if and only if the chain ends hardware and the filter is    *)
(* software and starts neither with [ nor with null[, never both; and when *)
(* neither, , and the upload bridge if and only if the hardware context is *)
(* active, the chain does not end hardware and the filter ends with ;.     *)
C28_Step ==
    \A t \in {"Video", "Audio"} :
        OrdinaryCase(t)
        => \E chain \in {ChainOf(t)} : \E filter \in {Latest.filter} :
               /\ ~(NeedsUpload(chain, filter) /\ NeedsDownload(chain, filter))
               /\ ChainOf(t)' =
                      chain
                          \o (IF NeedsUpload(chain, filter)
                                 \/ TrailingUpload(chain, filter)
                              THEN "," \o hw_upload_str(config)
                              ELSE IF NeedsDownload(chain, filter)
                                   THEN ",hwdownload"
                                   ELSE "")
                          \o "," \o filter
               /\ Uploads(AddedPrefix(t)) + Downloads(AddedPrefix(t)) <= 1

C28_OrdinaryCase == [][C28_Step]_vars

\* under CUDA decoding: a software filter after a hardware one, then either
\* a hardware filter again or a relabel ending with ;
C28_Witness ==
    /\ hw_context
    /\ Len(calls) = 3
    /\ \A i \in 1..3 : calls[i].type = "Video" /\ calls[i].nr = 0
    /\ calls[1].filter = "scale_cuda" /\ calls[2].filter = "null"
    /\ \/ /\ calls[3].filter = "null[v];"
          /\ video_chain = "[0:v:0]scale_cuda,hwdownload,null,hwupload_cuda,null[v];"
       \/ /\ calls[3].filter = "scale_cuda"
          /\ video_chain = "[0:v:0]scale_cuda,hwdownload,null,hwupload_cuda,scale_cuda"

\* number of places of s where pat occurs
TimesIn(s, pat) ==
    Cardinality({p \in 1..(Len(s) - Len(pat) + 1) : SubSeq(s, p, p + Len(pat) - 1) = pat})

\* the add_filter calls of type t so far went to track 2 and then, from a
\* filter that is no source generator on, to track 0
OutOfOrder(t) ==
    LET of_type == {i \in 1..Len(calls) : calls[i].op = "add_filter" /\ calls[i].type = t}
    IN  \E m \in of_type :
            /\ \E i \in of_type : i < m
            /\ \A i \in of_type : calls[i].nr = (IF i < m THEN 2 ELSE 0)
            /\ ~SourceGenerator(calls[m].filter)

\* the half of the graph that cmd() builds for type t
CmdChainOf(t) == IF t = "Audio" THEN cmd_a_chain ELSE cmd_v_chain

\* the labels of type t among the entries of the map list, in order
MapLabelsOf(t) ==
    SelectSeq(output_map,
              LAMBDA x : starts_with(x, IF t = "Audio" THEN "[aout" ELSE "[vout"))

Unlabelled(seg, i) ==
    IF ends_with(seg, OutLabelText("Audio", i))
    THEN SubSeq(seg, 1, Len(seg) - Len(OutLabelText("Audio", i)))
    ELSE seg

\* the text of the template f between the placeholder [0:a:i] and the next ;
AfterPlaceholder(f, i) ==
    LET from == Pos(f, "[0:a:" \o ToString(i) \o "]") + 7
        rest == SubSeq(f, from, Len(f))
    IN  IF Pos(rest, ";") = 0 THEN rest ELSE SubSeq(rest, 1, Pos(rest, ";") - 1)

\* the merge of filter_chains ran to its end with a built audio chain
Merged ==
    /\ pc = "done"
    /\ calls # << >> /\ calls[Len(calls)].op = "process_output_filters"
    /\ audio_chain # ""

(* C30: after the merge, for every selected audio track i whose            *)
(* placeholder [0:a:i] opens a piece of the template, the override holds   *)
(* in its place the segment built for track i without its closing label    *)
(* [aout<i>], followed by , and the rest of the template piece.            *)
C30_SegmentOfTrackSubstituted ==
    Merged
    => \A k \in 1..Len(Selected) :
           LET i == Selected[k]
               f == calls[Len(calls)].filter
           IN  contains(f, ";[0:a:" \o ToString(i) \o "]")
               => /\ k <= Len(AudioSegments)
                  /\ contains(output_chain[2],
                              ";" \o Unlabelled(AudioSegments[k], i) \o ","
                                  \o AfterPlaceholder(f, i))

\* the recorded stages that appended to the audio chain
AudioCalls ==
    SelectSeq(calls, LAMBDA rec : rec.type = "Audio")

(* C31: for a non-encoder item, with copy_video set no stage appends to    *)
(* the video chain (chain empty, marker -1, no video label) and map()      *)
(* holds the pair (-map, 0:v) unless audio_only is set; with copy_audio    *)
(* set no stage appends to the audio chain, pinned track or not, and map() *)
(* holds exactly one default pair for every track 0..audio_tracks-1.       *)
C31_CopyKeepsHalfUntouched ==
    node.unit # "Encoder"
    => /\ config.copy_video
          => /\ video_chain = "" /\ video_last = -1 /\ video_map = << >>
             /\ VideoCalls = << >>
             /\ \A i \in 1..Len(map) : ~starts_with(map[i], "[vout")
             /\ MapPairs(map, "0:v") = (IF config.audio_only THEN 0 ELSE 1)
       /\ config.copy_audio
          => /\ audio_chain = "" /\ audio_last = -1 /\ audio_map = << >>
             /\ AudioCalls = << >>
             /\ \A i \in 1..Len(map) : ~starts_with(map[i], "[aout")
             /\ \A i \in 0..(config.audio_tracks - 1) :
                    MapPairs(map, DefaultAudioMap(i)) = 1

\* filter_chains returned for a file item: once with copy_video and custom
\* filters set, once with copy_audio, two tracks and track 0 pinned
C31_Witness ==
    /\ pc = "done" /\ node.unit = "Decoder"
    /\ \/ /\ config.copy_video /\ config.custom_filter.video # ""
          /\ audio_chain # ""
          /\ map = << "-map", "[aout0]", "-map", "[aout1]", "-map", "0:v" >>
       \/ /\ config.copy_audio /\ config.audio_track_index = 0
          /\ video_chain # ""
          /\ map = << "-map", "[vout0]", "-map", "0:a:0", "-map", "0:a:1" >>

\* the positions of validate_playlist inside the body of the loop
InsideItem == {"add_probe", "check_media", "update", "advance"}

\* the steps of validate_playlist recorded for the item at position i
StepsOf(i) == {k \in 1..Len(v_log) : v_log[k].index = i /\ v_log[k].op # "terminate"}

\* validate_playlist takes the step
ValidateSteps == v_log' # v_log /\ v_log'[Len(v_log')].op # "terminate"

\* validate_playlist returned on the flag before the item at position index:
\* every earlier item ran up to its advance, nothing was done for this item
\* or a later one, and the length of the playlist was not checked
ReturnedEarly ==
    v_pc = "returned"
    => /\ is_terminated
       /\ v_log[Len(v_log)].op \in {"return", "terminate"}
       /\ \A i \in 0..(index - 1) : \E k \in StepsOf(i) : v_log[k].op = "advance"
       /\ \A k \in 1..Len(v_log) :
              /\ v_log[k].op \notin {"not_long_enough", "length_fine"}
              /\ (v_log[k].index >= index /\ v_log[k].op \notin {"terminate", "start"})
                     => v_log[k].op = "return"

(* C32: when validate_playlist is at the head of the loop with an item     *)
(* left and the flag is set, its next step is the return, which changes    *)
(* neither the playlist nor the current list; after the return it does     *)
(* nothing more (no probe, no validation, no change of the current list,   *)
(* no length check); inside an item no step returns, whatever the flag,    *)
(* so every item that was started has run up to its advance.               *)
C32_Step ==
    /\ (v_pc = "loop" /\ index < Len(program) /\ is_terminated /\ ValidateSteps)
           => v_pc' = "returned"
              /\ UNCHANGED <<program, current_list, begin, index>>
    /\ v_pc = "returned" => UNCHANGED validation
    /\ (v_pc \in InsideItem /\ ValidateSteps) => v_pc' \in InsideItem \cup {"loop"}
    /\ ReturnedEarly'

C32_ReturnOnFlagBetweenItems == [][C32_Step]_vars

\* the flag was set while the second item was being validated; the item ran
\* to its end, the current list took its probe, and the function returned
\* before the third item
C32_Witness ==
    /\ v_pc = "returned" /\ index = 2
    /\ \E t \in 1..Len(v_log) :
           /\ v_log[t].op = "terminate" /\ v_log[t].index = 1
           /\ \E k \in 1..(t - 1) : v_log[k] = [op |-> "add_probe", index |-> 1]
           /\ \E k \in (t + 1)..Len(v_log) : v_log[k] = [op |-> "update", index |-> 1]
    /\ current_list[2].probe # {} /\ current_list[3].probe = {}
    /\ program[3].probe = {}

\* the labels that the pairs of map() name
MappedLabels ==
    {map[i + 1] : i \in {k \in 1..(Len(map) - 1) :
                            map[k] = "-map" /\ starts_with(map[k + 1], "[")}}

(* C33: every label [<type>out<n>] that a -map pair of map() names occurs  *)
(* in the -filter_complex text that cmd() returns for the same state.      *)
C33_MappedLabelsDefined ==
    \A label \in MappedLabels :
        /\ Len(cmd) = 2
        /\ contains(cmd[2], label)

\* check_media has appended silencedetect
Checked == pc = "checked"

\* the audio labels registered in the label list
AudioLabels == {audio_map[k] : k \in 1..Len(audio_map)}

(* C34: after check_media has appended silencedetect on audio track 0,     *)
(* every registered label [aout<i>] stands exactly once in the graph of    *)
(* cmd(), once in the label list and in exactly one -map pair of map().    *)
C34_CheckMediaLabelsOnce ==
    Checked
    => /\ Len(cmd) = 2
       /\ OutLabelText("Audio", 0) \in AudioLabels
       /\ \A label \in AudioLabels :
              /\ TimesIn(cmd[2], label) = 1
              /\ Occurrences(audio_map, label) = 1
              /\ MapPairs(map, label) = 1

(* C35: with audio_only set, filter_chains appends nothing to the video    *)
(* chain: the chain stays empty, the video marker -1, and map() names      *)
(* neither a [vout..] label nor the default video map 0:v.                 *)
C35_AudioOnlyNoVideo ==
    config.audio_only
    => /\ video_chain = "" /\ video_last = -1 /\ video_map = << >>
       /\ VideoCalls = << >>
       /\ \A i \in 1..Len(map) : ~starts_with(map[i], "[vout") /\ map[i] # "0:v"

Finalizers == {"cmd", "map"}

\* the chain of type t that the add_filter calls of recs, from the k-th on,
\* build from the chain and the marker given
RECURSIVE Replayed(_, _, _, _, _)
Replayed(t, recs, k, chain, last) ==
    IF k > Len(recs) THEN chain
    ELSE IF recs[k].op = "add_filter" /\ recs[k].type = t
         THEN Replayed(t, recs, k + 1,
                       chain_after(chain, PositionOf(t), last, recs[k].filter,
                                   recs[k].nr, t),
                       recs[k].nr)
         ELSE Replayed(t, recs, k + 1, chain, last)

\* the history without the calls of cmd() and map()
WithoutFinalizers == SelectSeq(calls, LAMBDA rec : rec.op \notin Finalizers)

\* a call of cmd() or map() leaves every field of the graph state as it is
FinalizerWritesNothing ==
    (Stepped /\ Latest.op \in Finalizers) => UNCHANGED <<config, graph>>

(* C36: a call of cmd() or map() changes no field of the graph state; two  *)
(* calls of the same function with no add_filter between them return the   *)
(* same; and the chains are those that the add_filter calls alone build,   *)
(* so that no label that cmd() added is kept in a chain.                   *)
C36_Step ==
    /\ FinalizerWritesNothing
    /\ \A i \in 1..(Len(calls') - 1) :
           (calls'[i].op \in Finalizers /\ calls'[i + 1].op = calls'[i].op)
               => calls'[i + 1].result = calls'[i].result
    /\ \A t \in {"Video", "Audio"} :
           \A recs \in {WithoutFinalizers'} :
               ChainOf(t)' = Replayed(t, recs, 1, "", -1)

C36_FinalizersReadOnly == [][C36_Step]_vars

\* cmd() between two appends to video track 0: it returned the graph with
\* the closing label, and the chain went on without it
C36_Witness ==
    /\ Len(calls) = 3
    /\ calls[1].op = "add_filter" /\ calls[3].op = "add_filter"
    /\ calls[2].op = "cmd"
    /\ calls[2].result = << "-filter_complex", "[0:v:0]null[vout0]" >>
    /\ video_chain = "[0:v:0]null,null"
    /\ cmd = << "-filter_complex", "[0:v:0]null,null[vout0]" >>

(* C37: in every state that add_filter calls reach from a new graph state, *)
(* for video and for audio alike, the chain is empty exactly when the      *)
(* last-track marker is -1 and exactly when the label list is empty, so    *)
(* cmd() appends a closing label only to a non-empty chain.                *)
C37_EmptyIffSentinel ==
    \A t \in {"Video", "Audio"} :
        /\ (ChainOf(t) = "") <=> (LastOf(t) = -1)
        /\ (LastOf(t) = -1) <=> (LabelsOf(t) = << >>)
        /\ LastOf(t) >= -1
        /\ CmdChainOf(t) # ChainOf(t) => ChainOf(t) # ""

\* video track 2 has a filter and audio has none: the video half is
\* marked, labelled and closed by cmd(), the audio half is untouched
C37_Witness ==
    /\ Len(calls) = 2
    /\ video_chain # "" /\ video_last = 2 /\ video_map = << "[vout2]" >>
    /\ audio_chain = "" /\ audio_last = -1 /\ audio_map = << >>
    /\ cmd_v_chain = video_chain \o "[vout2]"
    /\ cmd_a_chain = ""

\* the bridge filter name that stands at index p of s, "" if none
BridgeAt(s, p) ==
    IF p + 12 <= Len(s) /\ SubSeq(s, p, p + 12) = "hwupload_cuda" THEN "hwupload_cuda"
    ELSE IF p + 9 <= Len(s) /\ SubSeq(s, p, p + 9) = "hwdownload" THEN "hwdownload"
    ELSE IF p + 7 <= Len(s) /\ SubSeq(s, p, p + 7) = "hwupload" THEN "hwupload"
    ELSE ""

\* the bridge at index p of s stands between delimiters: after the start of
\* the text, a separator or a label, and before a separator, a label or the
\* end of the text
Delimited(s, p) ==
    LET e == p + Len(BridgeAt(s, p))
    IN  /\ p = 1 \/ SubSeq(s, p - 1, p - 1) \in {",", ";", "]"}
        /\ e > Len(s) \/ SubSeq(s, e, e) \in {",", ";", "["}

(* C38: every bridge filter that an add_filter call inserts stands in the  *)
(* chain between delimiters: , or ; or a label on either side, never       *)
(* directly against the text of the previous or of the appended filter.    *)
C38_Step ==
    \A t \in {"Video", "Audio"} :
        (Stepped /\ Latest.op = "add_filter" /\ Latest.type = t)
        => \E s \in {ChainOf(t)'} :
               \A p \in (Len(ChainOf(t)) + 1)..Len(s) :
                   BridgeAt(s, p) # "" => Delimited(s, p)

C38_BridgesDelimited == [][C38_Step]_vars


---------------------------------------------------------------------------
\* the queue thread is inside LogMailer::log, at self.messages.lock(), and
\* holds that lock itself since mail_queue took it
Relock ==
    /\ thread_pc["queue"] = "log_push"
    /\ locks["messages"] = "queue"

\* the queue thread waits in log for last_messages, whose holder waits for
\* the message queue that the queue thread holds
LockCycle ==
    /\ thread_pc["queue"] = "log"
    /\ locks["messages"] = "queue"
    /\ locks["last_messages"] = "worker"
    /\ thread_pc["worker"] = "log_push"

\* C39: while mail_queue holds the lock of the message queue and runs
\* send_mail, an error that send_mail logs never brings LogMailer::log to
\* lock the message queue again on the same thread, and the queue thread is
\* never left where it cannot reach its sleep: it neither blocks for ever on
\* a lock nor dies.
C39_QueueNeverBlocksOnOwnLock ==
    /\ ~Relock
    /\ ~LockCycle
    /\ thread_pc["queue"] \notin {"deadlocked", "panicked"}

===========================================================================
